---- MODULE Spec2Model ----
(***************************************************************************)
(* Hybrid ranking engine of the directory search tool: the Express server  *)
(* (server/index.js, kept as src/unnamed/part_000), the serverless search  *)
(* handler (src/unnamed/part_001) and the Redis-backed report API          *)
(* (src/api/report.js, src/api/reports.js).                                *)
(*                                                                         *)
(* Numbers.  JavaScript doubles are modelled by exact rationals written as *)
(* integers over a stated denominator:                                     *)
(*   - a penalty multiplier m is the integer m * PEN_ONE (millionths);     *)
(*   - a semantic similarity s is the integer s * SEM_ONE;                 *)
(*   - a keyword boost matches/n is kept as the pair (kwNum, kwDen).       *)
(* Strings are TLA+ strings; characters outside ASCII in the source tables *)
(* are written with the stand-ins "~" (n with tilde) and "^" (o umlaut).   *)
(***************************************************************************)
EXTENDS Integers, Sequences, FiniteSets, TLC

VARIABLES
    deployment,     \* the server that runs: "express" (part_000) or "serverless" (part_001, api/*.js)
    dataDir,        \* the size of the snapshot held by the files of the data directory
    loaded,         \* the module variables among profilesMeta, embInt8, embScales that are not null
    profilesMeta,   \* part_000:81   the loaded profile snapshot (sequence of profiles)
    embInt8,        \* part_000:82   quantized vectors, one sequence of bytes per profile
    embScales,      \* part_000:83   per-vector scale pair <<min, max>>
    knownLocations, \* part_000:132  the Location Index
    reports,        \* part_000:422  the in-memory report log of the Express server
    reportsFile,    \* part_000:404  the persisted data/reports.json
    penalties,      \* part_000:426, part_001:15  the penalties table consulted by search
    response,       \* the last HTTP response sent; none once a search request has arrived
    search,         \* the search request in flight and the position of its handler
    redis,          \* api/report.js:3  the Redis list cobot:reports, head first
    redisReq,       \* the report requests of the serverless functions in flight
    now,            \* Date.now(), counted in report ids issued
    probe,          \* the last direct call of a function of the analyzer or the store, with its result
    client          \* src/app.js:23  the penalties map of the browser client and its submitReport calls

vars == << deployment, dataDir, loaded, profilesMeta, embInt8, embScales, knownLocations,
           reports, reportsFile, penalties, response, search, redis, redisReq, now, probe,
           client >>

-----------------------------------------------------------------------------
(* Program constants *)

TOP_K_DISPLAY == 20
TOP_K_GEO_BROWSE == 50
GEO_FILTER_MIN == 5
\* RELEVANCE_THRESHOLD = 0.35 and the stand-alone semantic bar 0.5, in hundredths
RELEVANCE_THRESHOLD == 35
STANDALONE_THRESHOLD == 50
\* denominators of the exact arithmetic
PEN_ONE == 1000000
SEM_ONE == 255

-----------------------------------------------------------------------------
(* JavaScript string and array primitives *)

Min(a, b) == IF a <= b THEN a ELSE b
Max(a, b) == IF a >= b THEN a ELSE b

SeqToSet(s) == { s[i] : i \in 1..Len(s) }

\* Array.prototype.includes
inArray(s, x) == \E i \in 1..Len(s) : s[i] = x

\* String.prototype.includes
includes(s, t) == \E i \in 0..(Len(s) - Len(t)) : SubSeq(s, i + 1, i + Len(t)) = t

UpperChars == "ABCDEFGHIJKLMNOPQRSTUVWXYZ"
LowerChars == "abcdefghijklmnopqrstuvwxyz"

LowerOf == [c \in { SubSeq(UpperChars, i, i) : i \in 1..26 } |->
              LET i == CHOOSE j \in 1..26 : SubSeq(UpperChars, j, j) = c
              IN  SubSeq(LowerChars, i, i)]
UpperOf == [c \in { SubSeq(LowerChars, i, i) : i \in 1..26 } |->
              LET i == CHOOSE j \in 1..26 : SubSeq(LowerChars, j, j) = c
              IN  SubSeq(UpperChars, i, i)]

lowerChar(c) == IF c \in DOMAIN LowerOf THEN LowerOf[c] ELSE c
upperChar(c) == IF c \in DOMAIN UpperOf THEN UpperOf[c] ELSE c

\* the k-th smallest element of a finite set of integers
nth(S, k) == CHOOSE i \in S : Cardinality({ j \in S : j < i }) = k - 1

\* a sequence given by a rule, with every element computed once
materialize(xs) == xs \o << >>

\* what one character of s becomes under
\*   "lower": toLowerCase();  "strip": replace(/['']/g, "");
\*   "unamp": replace(/&amp;/g, "&")
charMap(s, i, kind) ==
    LET c == SubSeq(s, i, i)
    IN  CASE kind = "lower" -> lowerChar(c)
          [] kind = "strip" -> IF c = "'" THEN "" ELSE c
          [] kind = "unamp" ->
               IF \E p \in Max(1, i - 4)..(i - 1) :
                     p + 4 <= Len(s) /\ SubSeq(s, p, p + 4) = "&amp;"
               THEN "" ELSE c

RECURSIVE mapChars(_, _, _, _)
\* the characters lo..hi of s, each mapped, concatenated
mapChars(s, lo, hi, kind) ==
    IF lo > hi THEN ""
    ELSE IF lo = hi THEN charMap(s, lo, kind)
    ELSE LET mid == (lo + hi) \div 2
         IN  mapChars(s, lo, mid, kind) \o mapChars(s, mid + 1, hi, kind)

toLowerCase(s) == mapChars(s, 1, Len(s), "lower")
stripApostrophes(s) == mapChars(s, 1, Len(s), "strip")

\* t.charAt(0).toUpperCase() + t.slice(1)
capitalize(t) == IF Len(t) = 0 THEN "" ELSE upperChar(SubSeq(t, 1, 1)) \o SubSeq(t, 2, Len(t))

isSpace(c) == c = " "

\* String.prototype.split(/\s+/): a run of white space is one separator; a
\* leading or trailing run leaves an empty first or last element.
splitWs(s) ==
    LET n == Len(s)
        sp(i) == isSpace(SubSeq(s, i, i))
        starts == { i \in 1..n : ~sp(i) /\ (i = 1 \/ sp(i - 1)) }
        ends == { i \in 1..n : ~sp(i) /\ (i = n \/ sp(i + 1)) }
        words == [k \in 1..Cardinality(starts) |-> SubSeq(s, nth(starts, k), nth(ends, k))]
    IN  IF n = 0 THEN << "" >>
        ELSE (IF sp(1) THEN << "" >> ELSE << >>) \o words
             \o (IF sp(n) THEN << "" >> ELSE << >>)

\* .filter(w => w.length >= n)
filterLen(ws, n) == SelectSeq(ws, LAMBDA w : Len(w) >= n)

RECURSIVE join(_, _)
\* Array.prototype.join
join(ws, sep) ==
    IF ws = << >> THEN ""
    ELSE IF Len(ws) = 1 THEN ws[1]
    ELSE ws[1] \o sep \o join(Tail(ws), sep)

RECURSIVE dedup(_)
\* [...new Set(xs)]: first occurrences, in order
dedup(xs) ==
    IF xs = << >> THEN << >>
    ELSE LET front == dedup(SubSeq(xs, 1, Len(xs) - 1))
             x == xs[Len(xs)]
         IN  IF inArray(front, x) THEN front ELSE Append(front, x)

\* xs.sort((a, b) => b.score - a.score).  Array.prototype.sort is stable: an
\* element comes after those of greater score and after the earlier ones of
\* equal score.
sortByScoreDesc(xs) ==
    LET n == Len(xs)
        ys == materialize(xs)
        rank == materialize([i \in 1..n |->
                   1 + Cardinality({ j \in 1..n : \/ ys[j].score > ys[i].score
                                                  \/ ys[j].score = ys[i].score /\ j < i })])
    IN  materialize([k \in 1..n |-> ys[CHOOSE i \in 1..n : rank[i] = k]])

\* a slice that cuts nothing
slice0_NoCut(xs, n) == xs

\* xs.slice(0, n)
slice0(xs, n) == SubSeq(xs, 1, Min(n, Len(xs)))

-----------------------------------------------------------------------------
(* Geographic search utilities *)

\* The Geo Alias Table, in the insertion order of the object literal
GEO_ALIASES ==
    << [key |-> "uk", vals |-> <<"england", "scotland", "wales", "northern ireland", "united kingdom", "gb">>],
       [key |-> "britain", vals |-> <<"england", "scotland", "wales", "united kingdom", "gb">>],
       [key |-> "united kingdom", vals |-> <<"england", "scotland", "wales", "northern ireland", "united kingdom", "gb">>],
       [key |-> "england", vals |-> <<"england">>],
       [key |-> "scotland", vals |-> <<"scotland">>],
       [key |-> "wales", vals |-> <<"wales">>],
       [key |-> "northern ireland", vals |-> <<"northern ireland">>],
       [key |-> "east anglia", vals |-> <<"norfolk", "suffolk", "cambridgeshire", "east anglia">>],
       [key |-> "west country", vals |-> <<"devon", "cornwall", "somerset", "dorset">>],
       [key |-> "home counties", vals |-> <<"surrey", "kent", "essex", "hertfordshire", "buckinghamshire", "berkshire">>],
       [key |-> "midlands", vals |-> <<"west midlands", "east midlands", "warwickshire", "staffordshire", "derbyshire", "nottinghamshire", "leicestershire">>],
       [key |-> "south east", vals |-> <<"surrey", "kent", "sussex", "hampshire">>],
       [key |-> "north west", vals |-> <<"lancashire", "cumbria", "merseyside", "greater manchester", "cheshire">>],
       [key |-> "north east", vals |-> <<"northumberland", "tyne and wear", "county durham">>],
       [key |-> "greater london", vals |-> <<"london">>],
       [key |-> "us", vals |-> <<"united states", "us", "usa">>],
       [key |-> "usa", vals |-> <<"united states", "us", "usa">>],
       [key |-> "united states", vals |-> <<"united states", "us", "usa">>],
       [key |-> "america", vals |-> <<"united states", "us", "usa">>],
       [key |-> "france", vals |-> <<"france", "fr", "frankreich">>],
       [key |-> "frankreich", vals |-> <<"france", "fr", "frankreich">>],
       [key |-> "germany", vals |-> <<"germany", "de", "deutschland">>],
       [key |-> "deutschland", vals |-> <<"germany", "de", "deutschland">>],
       [key |-> "spain", vals |-> <<"spain", "es", "espa~a", "espana">>],
       [key |-> "espa~a", vals |-> <<"spain", "es", "espa~a", "espana">>],
       [key |-> "espana", vals |-> <<"spain", "es", "espa~a", "espana">>],
       [key |-> "italy", vals |-> <<"italy", "it">>],
       [key |-> "brazil", vals |-> <<"brazil", "br">>],
       [key |-> "canada", vals |-> <<"canada", "ca">>],
       [key |-> "australia", vals |-> <<"australia", "au">>],
       [key |-> "india", vals |-> <<"india", "in">>],
       [key |-> "japan", vals |-> <<"japan", "jp">>],
       [key |-> "netherlands", vals |-> <<"netherlands", "nl">>],
       [key |-> "belgium", vals |-> <<"belgium", "be">>],
       [key |-> "austria", vals |-> <<"austria", "at", "^sterreich", "oesterreich">>],
       [key |-> "^sterreich", vals |-> <<"austria", "at", "^sterreich", "oesterreich">>],
       [key |-> "switzerland", vals |-> <<"switzerland", "ch", "schweiz", "suisse", "svizzera">>],
       [key |-> "schweiz", vals |-> <<"switzerland", "ch", "schweiz", "suisse", "svizzera">>],
       [key |-> "sweden", vals |-> <<"sweden", "se">>],
       [key |-> "portugal", vals |-> <<"portugal", "pt">>],
       [key |-> "kenya", vals |-> <<"kenya", "ke">>],
       [key |-> "ecuador", vals |-> <<"ecuador", "ec">>],
       [key |-> "ireland", vals |-> <<"ireland", "ie">>],
       [key |-> "new zealand", vals |-> <<"new zealand", "nz">>] >>

\* The Geo Alias Table of the serverless search handler
GEO_ALIASES_serverless ==
    << [key |-> "uk", vals |-> <<"england", "scotland", "wales", "northern ireland", "united kingdom", "gb">>],
       [key |-> "britain", vals |-> <<"england", "scotland", "wales", "united kingdom", "gb">>],
       [key |-> "united kingdom", vals |-> <<"england", "scotland", "wales", "northern ireland", "united kingdom", "gb">>],
       [key |-> "england", vals |-> <<"england">>],
       [key |-> "scotland", vals |-> <<"scotland">>],
       [key |-> "wales", vals |-> <<"wales">>],
       [key |-> "northern ireland", vals |-> <<"northern ireland">>],
       [key |-> "east anglia", vals |-> <<"norfolk", "suffolk", "cambridgeshire", "east anglia">>],
       [key |-> "west country", vals |-> <<"devon", "cornwall", "somerset", "dorset">>],
       [key |-> "home counties", vals |-> <<"surrey", "kent", "essex", "hertfordshire", "buckinghamshire", "berkshire">>],
       [key |-> "midlands", vals |-> <<"west midlands", "east midlands", "warwickshire", "staffordshire", "derbyshire", "nottinghamshire", "leicestershire">>],
       [key |-> "south east", vals |-> <<"surrey", "kent", "sussex", "hampshire">>],
       [key |-> "north west", vals |-> <<"lancashire", "cumbria", "merseyside", "greater manchester", "cheshire">>],
       [key |-> "north east", vals |-> <<"northumberland", "tyne and wear", "county durham">>],
       [key |-> "greater london", vals |-> <<"london">>],
       [key |-> "us", vals |-> <<"united states", "us", "usa">>],
       [key |-> "usa", vals |-> <<"united states", "us", "usa">>],
       [key |-> "united states", vals |-> <<"united states", "us", "usa">>],
       [key |-> "america", vals |-> <<"united states", "us", "usa">>],
       [key |-> "france", vals |-> <<"france", "fr", "frankreich">>],
       [key |-> "germany", vals |-> <<"germany", "de", "deutschland">>],
       [key |-> "spain", vals |-> <<"spain", "es", "espa~a", "espana">>],
       [key |-> "italy", vals |-> <<"italy", "it">>],
       [key |-> "brazil", vals |-> <<"brazil", "br">>],
       [key |-> "canada", vals |-> <<"canada", "ca">>],
       [key |-> "australia", vals |-> <<"australia", "au">>],
       [key |-> "india", vals |-> <<"india", "in">>],
       [key |-> "japan", vals |-> <<"japan", "jp">>],
       [key |-> "netherlands", vals |-> <<"netherlands", "nl">>],
       [key |-> "belgium", vals |-> <<"belgium", "be">>],
       [key |-> "austria", vals |-> <<"austria", "at", "^sterreich">>],
       [key |-> "switzerland", vals |-> <<"switzerland", "ch", "schweiz", "suisse">>],
       [key |-> "sweden", vals |-> <<"sweden", "se">>],
       [key |-> "portugal", vals |-> <<"portugal", "pt">>],
       [key |-> "kenya", vals |-> <<"kenya", "ke">>],
       [key |-> "ecuador", vals |-> <<"ecuador", "ec">>],
       [key |-> "ireland", vals |-> <<"ireland", "ie">>],
       [key |-> "new zealand", vals |-> <<"new zealand", "nz">>] >>

\* The Geo Alias Table of the browser client (src/app.js): the table of the
\* Express server with the key "oesterreich" after the key "^sterreich"
GEO_ALIASES_client ==
    SubSeq(GEO_ALIASES, 1, 36)
    \o << [key |-> "oesterreich", vals |-> <<"austria", "at", "^sterreich", "oesterreich">>] >>
    \o SubSeq(GEO_ALIASES, 37, Len(GEO_ALIASES))

\* value.replace(/&amp;/g, "&")
unescapeAmp(s) == mapChars(s, 1, Len(s), "unamp")

isSeparator(c) == c \in {":", "|", "&"}

\* .split(/[:|&|]/): every separator character ends a segment
splitSep(s) ==
    LET n == Len(s)
        bounds == {0, n + 1} \cup { i \in 1..n : isSeparator(SubSeq(s, i, i)) }
    IN  [k \in 1..(Cardinality(bounds) - 1) |->
           SubSeq(s, nth(bounds, k) + 1, nth(bounds, k + 1) - 1)]

\* String.prototype.trim
trim(s) ==
    LET solid == { i \in 1..Len(s) : ~isSpace(SubSeq(s, i, i)) }
    IN  IF solid = {} THEN ""
        ELSE SubSeq(s, nth(solid, 1), nth(solid, Cardinality(solid)))

splitLocationSegments(value) ==
    LET raw == splitSep(unescapeAmp(value))
        norm == materialize([i \in 1..Len(raw) |-> toLowerCase(trim(raw[i]))])
    IN  filterLen(norm, 2)

\* the set the three forEach loops of buildLocationIndex add for one profile
profileLocations(p) ==
    (IF p.locality # "" THEN SeqToSet(splitLocationSegments(p.locality)) ELSE {})
    \cup (IF p.region # "" THEN SeqToSet(splitLocationSegments(p.region)) ELSE {})
    \cup (IF p.country # "" THEN SeqToSet(splitLocationSegments(p.country)) ELSE {})

buildLocationIndex(profiles) ==
    UNION { profileLocations(profiles[i]) : i \in 1..Len(profiles) }

\* buildLocationIndex of the browser client: each field whole, lower-cased
\* and trimmed
buildLocationIndex_client(profiles) ==
    UNION { { trim(toLowerCase(f)) :
                f \in {profiles[i].locality, profiles[i].region, profiles[i].country} \ {""} }
            : i \in 1..Len(profiles) }

\* the Location Index the running implementation builds
locationIndexOf(profiles) ==
    IF deployment = "client" THEN buildLocationIndex_client(profiles)
    ELSE buildLocationIndex(profiles)

\* Object.keys(table).sort((a, b) => b.length - a.length)
sortedKeys(table) ==
    sortByScoreDesc([i \in 1..Len(table) |->
                       [key |-> table[i].key, vals |-> table[i].vals, score |-> Len(table[i].key)]])

\* aliasKeys of extractGeoTerms in the Express server and in the serverless handler
aliasKeys_express == sortedKeys(GEO_ALIASES)
aliasKeys_serverless == sortedKeys(GEO_ALIASES_serverless)
aliasKeys_client == sortedKeys(GEO_ALIASES_client)
aliasKeys ==
    CASE deployment = "serverless" -> aliasKeys_serverless
      [] deployment = "client" -> aliasKeys_client
      [] OTHER -> aliasKeys_express

\* an alias key that stands for itself only
aliasTokens_KeyOnly(k) == << k.key >>

\* GEO_ALIASES[key], the tokens terms.push(...) appends
aliasTokens(k) == k.vals

\* a word is skipped only when it is a term already
consumed_TermsOnly(word, terms, matched) == inArray(terms, word)

\* terms.includes(word) || matched.has(word)
consumed(word, terms, matched) == inArray(terms, word) \/ word \in matched

RECURSIVE aliasScan(_, _, _, _)
\* the loop over aliasKeys: st = [terms, matched]
aliasScan(q, keys, i, st) ==
    IF i > Len(keys) THEN st
    ELSE LET k == keys[i]
         IN  IF includes(q, k.key) /\ k.key \notin st.matched
             THEN aliasScan(q, keys, i + 1,
                    [terms |-> st.terms \o aliasTokens(k),
                     matched |-> st.matched \cup SeqToSet(splitWs(k.key)) \cup {k.key}])
             ELSE aliasScan(q, keys, i + 1, st)

RECURSIVE wordScan(_, _, _, _, _)
\* the loop over single words
wordScan(words, i, terms, matched, known) ==
    IF i > Len(words) THEN terms
    ELSE LET w == words[i]
         IN  IF consumed(w, terms, matched)
             THEN wordScan(words, i + 1, terms, matched, known)
             ELSE IF w \in known
                  THEN wordScan(words, i + 1, Append(terms, w), matched, known)
                  ELSE wordScan(words, i + 1, terms, matched, known)

RECURSIVE windowScan(_, _, _, _, _)
\* the loops over consecutive n-word windows (n = 2, 3)
windowScan(words, i, n, terms, known) ==
    IF i + n - 1 > Len(words) THEN terms
    ELSE LET phrase == join(SubSeq(words, i, i + n - 1), " ")
         IN  IF ~inArray(terms, phrase) /\ phrase \in known
             THEN windowScan(words, i + 1, n, Append(terms, phrase), known)
             ELSE windowScan(words, i + 1, n, terms, known)

\* extractGeoTerms; known is the Location Index in use.  The loop over
\* three-word windows is in the Express server only.
extractGeoTerms(query, known) ==
    LET q == stripApostrophes(toLowerCase(query))
        st == aliasScan(q, aliasKeys, 1, [terms |-> << >>, matched |-> {}])
        words == filterLen(splitWs(q), 3)
        t1 == wordScan(words, 1, st.terms, st.matched, known)
        t2 == windowScan(words, 1, 2, t1, known)
    IN  IF deployment = "serverless" THEN t2 ELSE windowScan(words, 1, 3, t2, known)

profileMatchesGeo(profile, geoTerms) ==
    LET fields == { toLowerCase(f) : f \in {profile.country, profile.region, profile.locality} \ {""} }
    IN  \E i \in 1..Len(geoTerms) : \E field \in fields : includes(field, geoTerms[i])

\* the characters the client's pattern accepts around a term: [\s/,;-]
isBoundary(c) == c \in {" ", "/", ",", ";", "-"}

\* new RegExp("(?:^|[\\s/,;-])" + escaped + "(?:$|[\\s/,;-])").test(field)
testAtBoundary(field, term) ==
    \E i \in 1..(Len(field) - Len(term) + 1) :
        LET last == i + Len(term) - 1
        IN  /\ SubSeq(field, i, last) = term
            /\ (i = 1 \/ isBoundary(SubSeq(field, i - 1, i - 1)))
            /\ (last = Len(field) \/ isBoundary(SubSeq(field, last + 1, last + 1)))

\* profileMatchesGeo of the browser client
profileMatchesGeo_client(profile, geoTerms) ==
    LET fields == { toLowerCase(f) : f \in {profile.country, profile.region, profile.locality} \ {""} }
    IN  \E i \in 1..Len(geoTerms) : \E field \in fields : testAtBoundary(field, geoTerms[i])

STOPWORDS ==
    { "the","and","for","are","but","not","you","all","can","has","her","was","one","our","out","his","how","its","may","who",
      "did","get","let","say","she","too","use","with","that","this","from","they","been","have","many","some","them","than","each",
      "make","like","into","over","such","here","what","about","which","when","there","their","will","would","could","should",
      "any","does","please","help","want","need","looking","much","got","your","every","most","these","those",
      "shall","might","just","also","very","really","quite","what's","whats",
      "show","find","search","list","give","tell","see","orgs","org","know","where",
      "everything","anything","things","places","stuff",
      "projects","organisations","organizations","groups","initiatives","based","near","nearby","around","related" }

\* STOPWORDS of the serverless search handler
STOPWORDS_serverless ==
    { "the","and","for","are","but","not","you","all","can","has","her","was","one","our","out",
      "his","how","its","may","who","did","get","let","say","she","too","use","with","that","this",
      "from","they","been","have","many","some","them","than","each","make","like","into","over",
      "such","here","what","about","which","when","there","their","will","would","could","should",
      "any","does","please","help","want","need","looking","much","got","your","every","most",
      "show","find","search","list","give","tell","see","orgs","org","know","where",
      "everything","anything","things","places","stuff",
      "projects","organisations","organizations","groups","initiatives","based","near","nearby","around","related" }

wordsOf(strs) == UNION { SeqToSet(splitWs(strs[i])) : i \in 1..Len(strs) }

\* every word of every alias key and of every alias expansion of a table
tableWords(table) ==
    UNION { SeqToSet(splitWs(table[i].key)) \cup wordsOf(table[i].vals) : i \in 1..Len(table) }

aliasWords_express == tableWords(GEO_ALIASES)
aliasWords_serverless == tableWords(GEO_ALIASES_serverless)
aliasWords == IF deployment = "serverless" THEN aliasWords_serverless ELSE aliasWords_express

\* the geo terms excluded whole, not word by word
extractTopicWords_WholeTerms(query, geoTerms) ==
    LET geoAliasWords == aliasWords \cup SeqToSet(geoTerms)
        stop == IF deployment = "serverless" THEN STOPWORDS_serverless ELSE STOPWORDS
    IN  SelectSeq(splitWs(stripApostrophes(toLowerCase(query))),
                  LAMBDA w : Len(w) >= 3 /\ w \notin stop /\ w \notin geoAliasWords)

extractTopicWords(query, geoTerms) ==
    LET geoAliasWords == aliasWords \cup wordsOf(geoTerms)
        stop == IF deployment = "serverless" THEN STOPWORDS_serverless ELSE STOPWORDS
    IN  SelectSeq(splitWs(stripApostrophes(toLowerCase(query))),
                  LAMBDA w : Len(w) >= 3 /\ w \notin stop /\ w \notin geoAliasWords)

\* .filter(Boolean) on strings
nonEmpty(xs) == SelectSeq(xs, LAMBDA x : x # "")

\* [name, description, ...tags].filter(Boolean).join(" ").toLowerCase()
profileText(profile) ==
    toLowerCase(join(nonEmpty(<< profile.name, profile.description >> \o profile.tags), " "))

\* matches / topicWords.length as the pair [num, den]; 0 is [0, 1]
topicKeywordBoost(profile, topicWords) ==
    IF Len(topicWords) = 0 THEN [num |-> 0, den |-> 1]
    ELSE LET text == profileText(profile)
         IN  [num |-> Cardinality({ i \in 1..Len(topicWords) : includes(text, topicWords[i]) }),
              den |-> Len(topicWords)]

-----------------------------------------------------------------------------
(* Embedding store *)

\* Length of the vectors of the model.  The source fixes EMBED_DIM = 384; the
\* dequantization and the dot product treat every component alike.
EmbedDim == 2

\* mx - mn || 1
scaleRange(mn, mx) == IF mx - mn = 0 THEN 1 ELSE mx - mn

\* dequant = (b + 128) * scale + mn with scale = range / 255, times SEM_ONE
dequant(b, mn, mx) == (b + 128) * scaleRange(mn, mx) + SEM_ONE * mn

RECURSIVE dotFrom(_, _, _, _, _)
dotFrom(queryVec, bytes, mn, mx, i) ==
    IF i > EmbedDim THEN 0
    ELSE queryVec[i] * dequant(bytes[i], mn, mx) + dotFrom(queryVec, bytes, mn, mx, i + 1)

\* Int8 cosine similarity with dequantization, times SEM_ONE
cosineSimilarityInt8(queryVec, idx) ==
    dotFrom(queryVec, embInt8[idx], embScales[idx][1], embScales[idx][2], 1)

-----------------------------------------------------------------------------
(* searchProfilesServer *)

\* the value of a missing queryEmbedding
NoEmbedding == << >>

\* a missing entry read as 0
penaltyOf_NoDefault(pen, url) == IF url \in DOMAIN pen THEN pen[url] ELSE 0

\* penalties[profile_url] ?? 1
penaltyOf(pen, url) == IF url \in DOMAIN pen THEN pen[url] ELSE PEN_ONE

\* One scored entry.  score is combined * (SEM_ONE * kwBoost.den * PEN_ONE);
\* rawSemantic is the rational [num, den] = min(1, semantic * (1 + kwBoost)).
\* The entry's profile is profilesMeta[idx].
scoreProfile(idx, geoMultiplier, queryEmbedding, topicWords, pen) ==
    LET semantic == IF queryEmbedding # NoEmbedding
                    THEN cosineSimilarityInt8(queryEmbedding, idx) ELSE 0
        kwBoost == topicKeywordBoost(profilesMeta[idx], topicWords)
        penaltyVal == penaltyOf(pen, profilesMeta[idx].profile_url)
        boosted == semantic * (kwBoost.den + kwBoost.num)
    IN  [ idx |-> idx,
          score |-> semantic * geoMultiplier * (kwBoost.den + kwBoost.num) * penaltyVal,
          rawSemantic |-> [num |-> Min(SEM_ONE * kwBoost.den, boosted),
                           den |-> SEM_ONE * kwBoost.den],
          kwBoost |-> kwBoost ]

\* { idx, profile: p, score: descLen, rawSemantic: 0, kwBoost: 0 }
browseEntry(idx) ==
    [ idx |-> idx,
      score |-> Len(profilesMeta[idx].description),
      rawSemantic |-> [num |-> 0, den |-> 1],
      kwBoost |-> [num |-> 0, den |-> 1] ]

\* r >= pct / 100 for a rational r = [num, den], den > 0
atLeast(r, pct) == 100 * r.num >= pct * r.den

deriveQueryType(geoTerms, topicWords) ==
    IF Len(geoTerms) > 0 /\ Len(topicWords) > 0 THEN "geo+topic"
    ELSE IF Len(geoTerms) > 0 THEN "geo-only"
    ELSE "topic-only"

\* The head of searchProfilesServer: geo terms, topic words and query type.
\* llmParams is [isNull, geo, topic, queryType]; an absent string is "".
analyseQuery(query, llmParams, known) ==
    IF ~llmParams.isNull
    THEN LET geoTerms == [i \in 1..Len(llmParams.geo) |-> toLowerCase(llmParams.geo[i])]
             topicWords == IF llmParams.topic # ""
                           THEN extractTopicWords(llmParams.topic, << >>) ELSE << >>
         IN  [ geoTerms |-> geoTerms, topicWords |-> topicWords,
               queryType |-> IF llmParams.queryType # "" THEN llmParams.queryType
                             ELSE deriveQueryType(geoTerms, topicWords) ]
    ELSE LET geoTerms == extractGeoTerms(query, known)
             topicWords == extractTopicWords(query, geoTerms)
         IN  [ geoTerms |-> geoTerms, topicWords |-> topicWords,
               queryType |-> deriveQueryType(geoTerms, topicWords) ]

\* every profile taken for a geo match
geoMatchIndices_All(geoTerms) == [i \in 1..Len(profilesMeta) |-> i]

\* the indices (from 1) of the profiles matching the geo terms, ascending
geoMatchIndices(geoTerms) ==
    SelectSeq([i \in 1..Len(profilesMeta) |-> i],
              LAMBDA i : profileMatchesGeo(profilesMeta[i], geoTerms))

\* the analysis together with geoMatchIndices, which the geo branch computes
\* first (<< >> when that branch is not taken)
planSearch(query, llmParams, known) ==
    LET an == analyseQuery(query, llmParams, known)
    IN  [ geoTerms |-> an.geoTerms, topicWords |-> an.topicWords, queryType |-> an.queryType,
          geo |-> IF Len(an.geoTerms) > 0 THEN geoMatchIndices(an.geoTerms) ELSE << >> ]

\* any geo match is enough
enoughGeoMatches_AnyMatch(geo) == Len(geo) >= 1

\* geoMatchIndices.length >= GEO_FILTER_MIN
enoughGeoMatches(geo) == Len(geo) >= GEO_FILTER_MIN

\* the browse list cut at the ranked-search limit
browseSlice_TopK(rs) == slice0(rs, TOP_K_DISPLAY)

\* results.slice(0, TOP_K_GEO_BROWSE)
browseSlice(rs) == slice0(rs, TOP_K_GEO_BROWSE)

\* the profiles scoreProfile is called for, in call order
indicesToScore(an) ==
    IF Len(an.geoTerms) > 0
    THEN IF enoughGeoMatches(an.geo) /\ Len(an.topicWords) > 0 THEN an.geo ELSE << >>
    ELSE [i \in 1..Len(profilesMeta) |-> i]

\* the strict filter without its keyword gate
passesStrict_NoKeywordGate(r) == atLeast(r.rawSemantic, RELEVANCE_THRESHOLD)

\* r.rawSemantic >= RELEVANCE_THRESHOLD && r.kwBoost > 0
passesStrict(r) ==
    atLeast(r.rawSemantic, RELEVANCE_THRESHOLD) /\ r.kwBoost.num > 0

\* the topic-only filter reduced to the relevance threshold
passesTopicOnly_ThresholdOnly(r, hasTopicWords) == atLeast(r.rawSemantic, RELEVANCE_THRESHOLD)

\* r.rawSemantic >= RELEVANCE_THRESHOLD
\*   && (!hasTopicWords || r.kwBoost > 0 || r.rawSemantic >= 0.5)
passesTopicOnly(r, hasTopicWords) ==
    atLeast(r.rawSemantic, RELEVANCE_THRESHOLD)
    /\ (~hasTopicWords \/ r.kwBoost.num > 0 \/ atLeast(r.rawSemantic, STANDALONE_THRESHOLD))

\* topResults.filter(...) of Tier B
filterStrict(rs) == SelectSeq(rs, passesStrict)

\* topResults.filter(...) of Tier C
filterTopicOnly(rs, hasTopicWords) == SelectSeq(rs, LAMBDA r : passesTopicOnly(r, hasTopicWords))

\* the browse list left in corpus order
geoBrowse_IndexOrder(geo) == [i \in 1..Len(geo) |-> browseEntry(geo[i])]

\* geoMatchIndices.map(...) sorted by description length, longest first
geoBrowse(geo) == sortByScoreDesc([i \in 1..Len(geo) |-> browseEntry(geo[i])])

noLocationNote(geoTerms) ==
    LET dd == dedup(geoTerms)
        triedLocations == [i \in 1..Len(dd) |-> capitalize(dd[i])]
    IN  "No results found matching that location. Searched: " \o join(triedLocations, ", ") \o "."

\* a count the returned object does not carry (undefined) or carries as null;
\* a null geoNote is written ""
None == -1

\* The body of searchProfilesServer after the analysis; scored holds the
\* scoreProfile results for indicesToScore(an), in that order.
rankTiers(an, scored, topK) ==
    LET hasTopicWords == Len(an.topicWords) > 0
        base == [ results |-> << >>, geoNote |-> "", geoTerms |-> an.geoTerms,
                  topicWords |-> an.topicWords, queryType |-> an.queryType,
                  totalGeoMatches |-> None, totalTopicMatches |-> None ]
    IN  IF Len(an.geoTerms) > 0
        THEN LET geo == an.geo
             IN  IF enoughGeoMatches(geo)
                 THEN IF ~hasTopicWords
                      THEN [base EXCEPT !.results = browseSlice(geoBrowse(geo)),
                                        !.totalGeoMatches = Len(geo)]
                      ELSE LET topResults == slice0(sortByScoreDesc(scored), topK)
                               filtered == filterStrict(topResults)
                           IN  IF Len(filtered) = 0
                               THEN [base EXCEPT !.results = browseSlice(geoBrowse(geo)),
                                                 !.queryType = "geo+topic-fallback",
                                                 !.totalGeoMatches = Len(geo)]
                               ELSE [base EXCEPT !.results = filtered]
                 ELSE [base EXCEPT !.geoNote = noLocationNote(an.geoTerms)]
        ELSE LET topResults == slice0(sortByScoreDesc(scored), topK)
                 filtered == filterTopicOnly(topResults, hasTopicWords)
             IN  [base EXCEPT !.results = filtered,
                              !.totalTopicMatches =
                                 IF hasTopicWords
                                 THEN Cardinality({ i \in 1..Len(profilesMeta) :
                                        topicKeywordBoost(profilesMeta[i], an.topicWords).num > 0 })
                                 ELSE None]

\* known is the Location Index after the lazy build of extractGeoTerms, pen
\* the penalties table the lookups read
searchProfilesServer(queryEmbedding, query, topK, llmParams, known, pen) ==
    LET an == planSearch(query, llmParams, known)
        todo == indicesToScore(an)
        scored == materialize([i \in 1..Len(todo) |->
                     scoreProfile(todo[i], 1, queryEmbedding, an.topicWords, pen)])
    IN  rankTiers(an, scored, topK)

-----------------------------------------------------------------------------
(* The files of the data directory *)

FillerText == "abcdefghijkl"

mkProfile(i, name, description, tags, locality, region, country) ==
    [ profile_url |-> "u" \o ToString(i), name |-> name, description |-> description,
      tags |-> tags, locality |-> locality, region |-> region, country |-> country ]

\* the i-th profile of data/profiles-meta.json
ProfileAt(i) ==
    CASE i = 1 -> mkProfile(i, "Oxford Wholefoods", "Organic food shop", << "food" >>,
                            "Oxford", "Oxfordshire", "England")
      [] i = 2 -> mkProfile(i, "Transition Cambridge", "Community action for a low carbon future",
                            << "transition", "climate" >>, "Cambridge", "Cambridgeshire", "England")
      [] i = 3 -> mkProfile(i, "Cambridge Solar Co-op", "Member owned solar panels", << "energy" >>,
                            "Cambridge", "", "GB")
      [] i = 4 -> mkProfile(i, "Daily Bread Co-operative (Cambridge)", "", << >>,
                            "Cambridge &amp; Ely", "", "England")
      [] i = 5 -> mkProfile(i, "Cambridge Carbon Footprint", "Climate charity", << "" >>,
                            "CAMBRIDGE", "East Anglia", "")
      [] i = 6 -> mkProfile(i, "Solar Sisters", "Solar lamps", << "energy", "women" >>,
                            "Paris", "", "France : FR")
      [] i = 7 -> mkProfile(i, "Cam Valley Wind", "Wind turbines and a solar farm", << >>,
                            "Cambridge", "Cambridgeshire", "England")
      [] i = 8 -> mkProfile(i, "Food Hub", "Surplus food for the borough", << "food" >>,
                            "Tower Hamlets", "London | Greater London", "England")
      [] i = 9 -> mkProfile(i, "Cambridge Group", SubSeq(FillerText, 1, 3 * (i % 4)), << >>,
                            "Cambridge", "", "Ireland")
      [] i = 10 -> mkProfile(i, "Cambridge Group", SubSeq(FillerText, 1, 3 * (i % 4)), << >>,
                             "Cambridge", "Tyne and Wear", "England")
      [] OTHER -> mkProfile(i, "Cambridge Group", SubSeq(FillerText, 1, 3 * (i % 4)), << >>,
                            "Cambridge", "", "England")

\* the scale pair <<min, max>> of the i-th vector of embeddings-scales.bin
ScaleAt(i) ==
    CASE i \in {3, 7} -> << -1, 1 >>
      [] i = 4 -> << 0, 0 >>
      [] OTHER -> << 0, 1 >>

\* component j of the i-th vector of embeddings-int8.bin
ByteAt(i, j) ==
    CASE i = 1 -> IF j = 1 THEN -26 ELSE 127
      [] i = 2 -> IF j = 1 THEN 100 ELSE -128
      [] i = 3 -> IF j = 1 THEN 72 ELSE -128
      [] i = 4 -> IF j = 1 THEN -38 ELSE 0
      [] i = 5 -> IF j = 1 THEN -78 ELSE -128
      [] i = 6 -> IF j = 1 THEN -48 ELSE 0
      [] i = 7 -> IF j = 1 THEN 40 ELSE 100
      [] i = 8 -> IF j = 1 THEN -128 ELSE -28
      [] OTHER -> IF j = 1 THEN (IF i % 2 = 0 THEN 102 ELSE -68) ELSE -128

Corpus(n) == [i \in 1..n |-> ProfileAt(i)]
CorpusBytes(n) == [i \in 1..n |-> [j \in 1..EmbedDim |-> ByteAt(i, j)]]
CorpusScales(n) == [i \in 1..n |-> ScaleAt(i)]

\* the module variables that hold the loaded data
AllData == {"profilesMeta", "embInt8", "embScales"}

\* loadData() of the serverless handler: nothing when profilesMeta is set,
\* else the three files are read and the Location Index is built
loadData ==
    IF "profilesMeta" \in loaded
    THEN UNCHANGED << loaded, profilesMeta, embInt8, embScales, knownLocations >>
    ELSE /\ profilesMeta' = Corpus(dataDir)
         /\ embInt8' = CorpusBytes(dataDir)
         /\ embScales' = CorpusScales(dataDir)
         /\ loaded' = AllData
         /\ knownLocations' = [ isNull |-> FALSE, tokens |-> buildLocationIndex(Corpus(dataDir)) ]

-----------------------------------------------------------------------------
(* POST /api/search of the Express server and the serverless search handler *)

\* a request body is [query, hasGeo, geo, topic, queryType]; an absent string
\* field is "", an absent geo has hasGeo = FALSE
missingQuery(body) ==
    body.query = "" /\ body.topic = "" /\ (~body.hasGeo \/ Len(body.geo) = 0)

\* (geo || topic || queryType) ? { geo: geo || [], topic: topic || "", ... } : null
llmParamsOf(body) ==
    [ isNull |-> ~(body.hasGeo \/ body.topic # "" \/ body.queryType # ""),
      geo |-> body.geo, topic |-> body.topic, queryType |-> body.queryType ]

\* topic || query || ""
searchTopicOf(body) == IF body.topic # "" THEN body.topic ELSE body.query

\* query || searchTopic
queryArgOf(body) == IF body.query # "" THEN body.query ELSE searchTopicOf(body)

\* searchTopic && effectiveQueryType !== "geo-only"
needsEmbedding(body) == searchTopicOf(body) # "" /\ body.queryType # "geo-only"

\* Math.round(x * 100) for a rational x = [num, den] > 0
roundPercent(x) == (200 * x.num + x.den) \div (2 * x.den)

\* the JSON the handler answers with; a null _relevance is None
searchJson(sr) ==
    [ results |-> [i \in 1..Len(sr.results) |->
                     [ _idx |-> sr.results[i].idx,
                       _relevance |-> IF sr.results[i].rawSemantic.num > 0
                                      THEN roundPercent(sr.results[i].rawSemantic)
                                      ELSE None ]],
      totalResults |-> IF sr.totalGeoMatches \notin {None, 0} THEN sr.totalGeoMatches
                       ELSE IF sr.totalTopicMatches \notin {None, 0} THEN sr.totalTopicMatches
                       ELSE Len(sr.results),
      geoNote |-> sr.geoNote, queryType |-> sr.queryType,
      geoTerms |-> sr.geoTerms, topicWords |-> sr.topicWords ]

NoSearchResult == [ results |-> << >> ]

NoRequest == [ body |-> << >>, queryEmbedding |-> << >> ]

\* res.status(code).json(...).  Beside the status and the JSON, the record
\* keeps what the handler was called with and what searchProfilesServer
\* returned to it.
respond(code, kind, json, sr, req) ==
    [ status |-> code, kind |-> kind, json |-> json, searchResult |-> sr, request |-> req ]

NoResponse == respond(0, "none", << >>, NoSearchResult, NoRequest)

NullIndex == [ isNull |-> TRUE, tokens |-> {} ]

\* if (!knownLocations) buildLocationIndex(), on the free-text path only
indexAfterSearch(body) ==
    IF llmParamsOf(body).isNull /\ knownLocations.isNull
    THEN [ isNull |-> FALSE, tokens |-> buildLocationIndex(profilesMeta) ]
    ELSE knownLocations

Idle == [ pc |-> "idle" ]

\* no function called directly yet
NoProbe == [ fn |-> "none" ]

\* a scheduler that lets a handler run in the middle of another
EventLoopFree_Preemptive == TRUE

\* Handlers run to completion: from the call of searchProfilesServer to
\* res.json the search handler has no await, and no other handler of the
\* process runs in between.
EventLoopFree == search.pc \notin {"ready", "scoring"}

\* A search request reaches the server; its handler has not run yet.
SearchArrive(body) ==
    /\ search = Idle
    /\ search' = [ pc |-> "received", body |-> body ]
    /\ response' = NoResponse
    /\ UNCHANGED << client, probe, deployment, dataDir, loaded, profilesMeta, embInt8, embScales,
                    knownLocations, reports, reportsFile, penalties, redis, redisReq, now >>

\* The handler runs up to its first await, or up to the call of
\* searchProfilesServer when it needs no embedding.
SearchStart ==
    /\ search.pc = "received"
    /\ IF deployment = "serverless"
       THEN loadData
       ELSE UNCHANGED << loaded, profilesMeta, embInt8, embScales, knownLocations >>
    /\ IF missingQuery(search.body)
       THEN /\ response' = respond(400, "search", << >>, NoSearchResult,
                                    [ body |-> search.body, queryEmbedding |-> NoEmbedding ])
            /\ search' = Idle
       ELSE /\ search' = IF needsEmbedding(search.body)
                         THEN [ pc |-> "await", body |-> search.body ]
                         ELSE [ pc |-> "ready", body |-> search.body,
                                queryEmbedding |-> NoEmbedding ]
            /\ UNCHANGED response
    /\ UNCHANGED << client, probe, deployment, dataDir, reports, reportsFile, penalties, redis, redisReq, now >>

\* The serverless handler when a read of loadData() throws: the module
\* variables assigned before the throw (those in got) stay set,
\* buildLocationIndex() is not reached, and the catch answers 500.
SearchStartLoadFails(got) ==
    /\ search.pc = "received"
    /\ deployment = "serverless"
    /\ "profilesMeta" \notin loaded
    /\ got \in { {}, {"profilesMeta"}, {"profilesMeta", "embInt8"} }
    /\ loaded' = got
    /\ profilesMeta' = IF "profilesMeta" \in got THEN Corpus(dataDir) ELSE profilesMeta
    /\ embInt8' = IF "embInt8" \in got THEN CorpusBytes(dataDir) ELSE embInt8
    /\ response' = respond(500, "search", << >>, NoSearchResult,
                           [ body |-> search.body, queryEmbedding |-> NoEmbedding ])
    /\ search' = Idle
    /\ UNCHANGED << client, probe, deployment, dataDir, embScales, knownLocations, reports,
                    reportsFile, penalties, redis, redisReq, now >>

\* The embedder answers with vec.
SearchEmbedded(vec) ==
    /\ search.pc = "await"
    /\ search' = [ pc |-> "ready", body |-> search.body, queryEmbedding |-> vec ]
    /\ UNCHANGED << client, probe, deployment, dataDir, loaded, profilesMeta, embInt8, embScales,
                    knownLocations, reports, reportsFile, penalties, response, redis,
                    redisReq, now >>

\* The head of searchProfilesServer: the analysis of the query, with the lazy
\* build of the Location Index, and geoMatchIndices.
SearchAnalyse ==
    /\ search.pc = "ready"
    /\ LET known == indexAfterSearch(search.body)
       IN  /\ knownLocations' = known
           /\ search' = [ pc |-> "scoring", body |-> search.body,
                          queryEmbedding |-> search.queryEmbedding,
                          plan |-> planSearch(queryArgOf(search.body),
                                              llmParamsOf(search.body), known.tokens),
                          scored |-> << >>, tables |-> << >> ]
    /\ UNCHANGED << client, probe, deployment, dataDir, loaded, profilesMeta, embInt8, embScales,
                    reports, reportsFile, penalties, response, redis, redisReq, now >>

\* embScales is still null: embScales[scaleOffset] throws a TypeError
scalesMissing == "embScales" \notin loaded

\* One call of scoreProfile, with its lookup in penalties.  tables keeps, for
\* each call, the table the lookup read.  When cosineSimilarityInt8 throws,
\* the catch of the handler answers 500.
ScoreStep ==
    /\ search.pc = "scoring"
    /\ Len(search.scored) < Len(indicesToScore(search.plan))
    /\ IF search.queryEmbedding # NoEmbedding /\ scalesMissing
       THEN /\ response' = respond(500, "search", << >>, NoSearchResult,
                                    [ body |-> search.body,
                                      queryEmbedding |-> search.queryEmbedding ])
            /\ search' = Idle
       ELSE /\ LET idx == indicesToScore(search.plan)[Len(search.scored) + 1]
               IN  search' = [ search EXCEPT
                                 !.scored = Append(@, scoreProfile(idx, 1, search.queryEmbedding,
                                                                   search.plan.topicWords, penalties)),
                                 !.tables = Append(@, penalties) ]
            /\ UNCHANGED response
    /\ UNCHANGED << client, probe, deployment, dataDir, loaded, profilesMeta, embInt8, embScales,
                    knownLocations, reports, reportsFile, penalties, redis, redisReq, now >>

\* The tiers of searchProfilesServer over the scored profiles, and res.json.
SearchFinish ==
    /\ search.pc = "scoring"
    /\ Len(search.scored) = Len(indicesToScore(search.plan))
    /\ LET sr == rankTiers(search.plan, search.scored, TOP_K_DISPLAY)
       IN  response' = respond(200, "search", searchJson(sr), sr,
                               [ body |-> search.body, queryEmbedding |-> search.queryEmbedding ])
    /\ search' = Idle
    /\ UNCHANGED << client, probe, deployment, dataDir, loaded, profilesMeta, embInt8, embScales,
                    knownLocations, reports, reportsFile, penalties, redis, redisReq, now >>

-----------------------------------------------------------------------------
(* Reports and the penalties table *)

\* a stored report is [id, profile_url, report_type, query]; query is << >>
\* for null and << q >> for the string q.  (profile_name, primary_url, message
\* and timestamp are stored too and read by nothing modelled here.)
mkReport(id, url, type, query) ==
    [ id |-> id, profile_url |-> url, report_type |-> type,
      query |-> IF query = "" THEN << >> ELSE << query >> ]

\* r.query || ""
queryOrEmpty(r) == IF r.query = << >> THEN "" ELSE r.query[1]

RECURSIVE pow9(_)
pow9(n) == IF n = 0 THEN 1 ELSE 9 * pow9(n - 1)

RECURSIVE pow10(_)
pow10(n) == IF n = 0 THEN 1 ELSE 10 * pow10(n - 1)

\* Math.pow(0.9, n) in millionths: exact up to n = 6, rounded down beyond
pow09(n) == IF n <= 6 THEN pow9(n) * pow10(6 - n) ELSE pow9(n) \div pow10(n - 6)

\* the multiplier of a dead link, 0.1
DEAD_LINK_PENALTY == 100000
\* the floor of the irrelevance factor, 0.5
IRRELEVANT_FLOOR == 500000

\* the irrelevance factor without its floor
irrelevantFactor_NoFloor(size) == pow09(size)

\* Math.max(0.5, Math.pow(0.9, queries.size))
irrelevantFactor(size) == Max(IRRELEVANT_FLOOR, pow09(size))

\* deadLinks: the urls with a dead_link report
deadLinkUrls(log) ==
    { log[i].profile_url : i \in { j \in 1..Len(log) : log[j].report_type = "dead_link" } }

\* url -> the irrelevant reports of the url, one element per report
irrelevantQs_PerReport(log) ==
    LET irr == { j \in 1..Len(log) : log[j].report_type = "irrelevant" }
    IN  [ url \in { log[j].profile_url : j \in irr } |->
            { k \in irr : log[k].profile_url = url } ]

\* irrelevantQs: url -> Set of the queries of its irrelevant reports
irrelevantQs(log) ==
    LET irr == { j \in 1..Len(log) : log[j].report_type = "irrelevant" }
    IN  [ url \in { log[j].profile_url : j \in irr } |->
            { queryOrEmpty(log[j]) : j \in { k \in irr : log[k].profile_url = url } } ]

\* a table in which every further dead-link report divides the multiplier by ten
computePenalties_Cumulative(log) ==
    LET dead == deadLinkUrls(log)
        irrQs == irrelevantQs(log)
        count(url) == Cardinality({ j \in 1..Len(log) :
                         log[j].report_type = "dead_link" /\ log[j].profile_url = url })
    IN  [ url \in dead \cup DOMAIN irrQs |->
            LET afterDead == IF url \in dead THEN PEN_ONE \div pow10(count(url)) ELSE PEN_ONE
            IN  IF url \in DOMAIN irrQs
                THEN Min(afterDead, irrelevantFactor(Cardinality(irrQs[url])))
                ELSE afterDead ]

\* a computation that is not idempotent: run right after an answer that
\* carried its table, it halves every multiplier
computePenalties_Compounding(log) ==
    LET dead == deadLinkUrls(log)
        irrQs == irrelevantQs(log)
        again == IF response.kind = "penalties" THEN 2 ELSE 1
    IN  [ url \in dead \cup DOMAIN irrQs |->
            LET afterDead == IF url \in dead THEN DEAD_LINK_PENALTY ELSE PEN_ONE
            IN  (IF url \in DOMAIN irrQs
                 THEN Min(afterDead, irrelevantFactor(Cardinality(irrQs[url])))
                 ELSE afterDead) \div again ]

\* Compute penalty map: profile_url -> multiplier
computePenalties(log) ==
    LET dead == deadLinkUrls(log)
        irrQs == irrelevantQs(log)
    IN  [ url \in dead \cup DOMAIN irrQs |->
            LET afterDead == IF url \in dead THEN DEAD_LINK_PENALTY ELSE PEN_ONE
            IN  IF url \in DOMAIN irrQs
                THEN Min(afterDead, irrelevantFactor(Cardinality(irrQs[url])))
                ELSE afterDead ]

\* let penalties = {}
NoPenalties == computePenalties(<< >>)

\* a report request body is [profile_url, report_type, query]; an absent
\* field is ""
mkReportBody(url, type, query) == [ profile_url |-> url, report_type |-> type, query |-> query ]

\* !profile_url || !report_type
invalidReport(body) == body.profile_url = "" \/ body.report_type = ""

\* an index that, when no report has the id, falls on the last report, as
\* splice(-1, 1) does
findIndex_LastWhenMissing(log, id) ==
    IF \E i \in 1..Len(log) : log[i].id = id
    THEN nth({ i \in 1..Len(log) : log[i].id = id }, 1)
    ELSE Len(log)

\* reports.findIndex(r => r.id === id), from 1; 0 when there is none
findIndex(log, id) ==
    IF \E i \in 1..Len(log) : log[i].id = id
    THEN nth({ i \in 1..Len(log) : log[i].id = id }, 1)
    ELSE 0

\* the log after splice(idx, 1)
splice(log, idx) == SubSeq(log, 1, idx - 1) \o SubSeq(log, idx + 1, Len(log))

\* added reports the model lets the clock issue ids for
MaxAdds == 2
\* the clock at start-up; the ids of the reports already in a log are below it
SeedClock == 6

\* the submitReport call that sent a request now has its answer under way;
\* caller 0 is a sender other than the browser client
answerTo(caller, pc, table) ==
    IF caller = 0 THEN client
    ELSE [client EXCEPT !.calls[caller].pc = pc, !.calls[caller].table = table]

\* POST /api/report of the Express server, sent by caller
ReportPost(body, caller) ==
    /\ deployment = "express"
    /\ EventLoopFree
    /\ caller # 0 => (client.calls[caller].pc = "posting" /\ body = client.calls[caller].body)
    /\ client' = answerTo(caller, "posted", << >>)
    /\ invalidReport(body) \/ now < SeedClock + MaxAdds
    /\ IF invalidReport(body)
       THEN /\ response' = respond(400, "report", << >>, NoSearchResult, NoRequest)
            /\ UNCHANGED << reports, reportsFile, penalties, now >>
       ELSE LET report == mkReport(now + 1, body.profile_url, body.report_type, body.query)
                log == Append(reports, report)
            IN  /\ reports' = log
                /\ reportsFile' = log
                /\ penalties' = computePenalties(log)
                /\ now' = now + 1
                /\ response' = respond(200, "report", [ ok |-> TRUE, id |-> report.id ],
                                       NoSearchResult, NoRequest)
    /\ UNCHANGED << probe, deployment, dataDir, loaded, profilesMeta, embInt8, embScales,
                    knownLocations, search, redis, redisReq >>

\* DELETE /api/reports/:id of the Express server
ReportDelete(id) ==
    /\ deployment = "express"
    /\ EventLoopFree
    /\ LET idx == findIndex(reports, id)
       IN  IF idx = 0
           THEN /\ response' = respond(404, "delete", << >>, NoSearchResult, NoRequest)
                /\ UNCHANGED << reports, reportsFile, penalties >>
           ELSE LET log == splice(reports, idx)
                IN  /\ reports' = log
                    /\ reportsFile' = log
                    /\ penalties' = computePenalties(log)
                    /\ response' = respond(200, "delete", [ ok |-> TRUE ],
                                           NoSearchResult, NoRequest)
    /\ UNCHANGED << client, probe, deployment, dataDir, loaded, profilesMeta, embInt8, embScales,
                    knownLocations, search, redis, redisReq, now >>

\* GET /api/reports of the Express server
ReportsGet ==
    /\ deployment = "express"
    /\ EventLoopFree
    /\ response' = respond(200, "reports", reports, NoSearchResult, NoRequest)
    /\ UNCHANGED << client, probe, deployment, dataDir, loaded, profilesMeta, embInt8, embScales,
                    knownLocations, reports, reportsFile, penalties, search, redis,
                    redisReq, now >>

\* GET /api/penalties of the Express server, sent by caller
PenaltiesGet(caller) ==
    /\ deployment = "express"
    /\ EventLoopFree
    /\ caller # 0 => client.calls[caller].pc = "fetching"
    /\ client' = answerTo(caller, "fetched", computePenalties(reports))
    /\ response' = respond(200, "penalties", computePenalties(reports), NoSearchResult, NoRequest)
    /\ UNCHANGED << probe, deployment, dataDir, loaded, profilesMeta, embInt8, embScales,
                    knownLocations, reports, reportsFile, penalties, search, redis,
                    redisReq, now >>

-----------------------------------------------------------------------------
(* The browser client: submitReport and loadPenalties *)

\* submitReport calls the model lets run at a time
MaxCalls == 2
Callers == 1..MaxCalls

\* a submitReport call is [pc, body, table]: the body of its POST and, once
\* GET /api/penalties is served, the table under way to the client
NoCall == [ pc |-> "idle", body |-> mkReportBody("", "", ""), table |-> << >> ]

\* the client after its start-up loadPenalties() received table
BrowserLoaded(table) == [ penalties |-> table, calls |-> [c \in Callers |-> NoCall] ]

\* submitReport up to its first await: the POST is sent
SubmitReport(c, body) ==
    /\ client.calls[c].pc = "idle"
    /\ client' = [client EXCEPT !.calls[c] = [ pc |-> "posting", body |-> body, table |-> << >> ]]
    /\ UNCHANGED << probe, deployment, dataDir, loaded, profilesMeta, embInt8, embScales,
                    knownLocations, reports, reportsFile, penalties, response, search,
                    redis, redisReq, now >>

\* the answer of the POST reaches the client: loadPenalties() sends its GET
LoadPenaltiesSend(c) ==
    /\ client.calls[c].pc = "posted"
    /\ client' = [client EXCEPT !.calls[c].pc = "fetching"]
    /\ UNCHANGED << probe, deployment, dataDir, loaded, profilesMeta, embInt8, embScales,
                    knownLocations, reports, reportsFile, penalties, response, search,
                    redis, redisReq, now >>

\* the answer of the GET reaches the client: penalties = await res.json(),
\* and the submitReport call returns
LoadPenaltiesReceive(c) ==
    /\ client.calls[c].pc = "fetched"
    /\ client' = [client EXCEPT !.penalties = client.calls[c].table, !.calls[c] = NoCall]
    /\ UNCHANGED << probe, deployment, dataDir, loaded, profilesMeta, embInt8, embScales,
                    knownLocations, reports, reportsFile, penalties, response, search,
                    redis, redisReq, now >>

-----------------------------------------------------------------------------
(* The Redis-backed report API of the serverless deployment *)

MAX_REPORTS == 1000

\* the report api/report.js stores: query || ""
mkRedisReport(id, url, type, query) ==
    [ id |-> id, profile_url |-> url, report_type |-> type, query |-> << query >> ]

NoRedisReq == [ post |-> Idle, del |-> Idle ]

\* POST /api/report up to the answer of lpush
RedisPost(body) ==
    /\ deployment = "serverless"
    /\ redisReq.post = Idle
    /\ invalidReport(body) \/ now < SeedClock + MaxAdds
    /\ IF invalidReport(body)
       THEN /\ response' = respond(400, "report", << >>, NoSearchResult, NoRequest)
            /\ UNCHANGED << redis, redisReq, now >>
       ELSE LET report == mkRedisReport(now + 1, body.profile_url, body.report_type, body.query)
            IN  /\ redis' = << report >> \o redis
                /\ redisReq' = [ redisReq EXCEPT !.post = [ pc |-> "ltrim", id |-> report.id ] ]
                /\ now' = now + 1
                /\ UNCHANGED response
    /\ UNCHANGED << client, probe, deployment, dataDir, loaded, profilesMeta, embInt8, embScales,
                    knownLocations, reports, reportsFile, penalties, search >>

\* ltrim(REPORTS_KEY, 0, MAX_REPORTS - 1) and the answer of POST /api/report
RedisTrim ==
    /\ redisReq.post.pc = "ltrim"
    /\ redis' = slice0(redis, MAX_REPORTS)
    /\ response' = respond(200, "report", [ ok |-> TRUE, id |-> redisReq.post.id ],
                           NoSearchResult, NoRequest)
    /\ redisReq' = [ redisReq EXCEPT !.post = Idle ]
    /\ UNCHANGED << client, probe, deployment, dataDir, loaded, profilesMeta, embInt8, embScales,
                    knownLocations, reports, reportsFile, penalties, search, now >>

\* DELETE /api/reports/<id> up to the answer of lrange; the id 0 is the
\* empty last segment of the path
RedisDeleteRead(id) ==
    /\ deployment = "serverless"
    /\ redisReq.del = Idle
    /\ IF id = 0
       THEN /\ response' = respond(400, "delete", << >>, NoSearchResult, NoRequest)
            /\ UNCHANGED redisReq
       ELSE /\ redisReq' = [ redisReq EXCEPT !.del =
                               [ pc |-> "del",
                                 filtered |-> SelectSeq(redis, LAMBDA r : r.id # id) ] ]
            /\ UNCHANGED response
    /\ UNCHANGED << client, probe, deployment, dataDir, loaded, profilesMeta, embInt8, embScales,
                    knownLocations, reports, reportsFile, penalties, search, redis, now >>

\* del(REPORTS_KEY); the answer when nothing is left to push back
RedisDeleteDel ==
    /\ redisReq.del.pc = "del"
    /\ redis' = << >>
    /\ IF Len(redisReq.del.filtered) > 0
       THEN /\ redisReq' = [ redisReq EXCEPT !.del.pc = "rpush" ]
            /\ UNCHANGED response
       ELSE /\ redisReq' = [ redisReq EXCEPT !.del = Idle ]
            /\ response' = respond(200, "delete", [ ok |-> TRUE ], NoSearchResult, NoRequest)
    /\ UNCHANGED << client, probe, deployment, dataDir, loaded, profilesMeta, embInt8, embScales,
                    knownLocations, reports, reportsFile, penalties, search, now >>

\* rpush(REPORTS_KEY, ...filtered) and the answer of the delete
RedisDeleteRpush ==
    /\ redisReq.del.pc = "rpush"
    /\ redis' = redis \o redisReq.del.filtered
    /\ redisReq' = [ redisReq EXCEPT !.del = Idle ]
    /\ response' = respond(200, "delete", [ ok |-> TRUE ], NoSearchResult, NoRequest)
    /\ UNCHANGED << client, probe, deployment, dataDir, loaded, profilesMeta, embInt8, embScales,
                    knownLocations, reports, reportsFile, penalties, search, now >>

\* GET /api/reports of the serverless deployment
RedisReportsGet ==
    /\ deployment = "serverless"
    /\ response' = respond(200, "reports", redis, NoSearchResult, NoRequest)
    /\ UNCHANGED << client, probe, deployment, dataDir, loaded, profilesMeta, embInt8, embScales,
                    knownLocations, reports, reportsFile, penalties, search, redis,
                    redisReq, now >>

-----------------------------------------------------------------------------
(* Direct calls of the functions of the query analyzer *)

\* extractGeoTerms(query), with its lazy build of the Location Index
CallExtractGeoTerms(query) ==
    /\ search = Idle
    /\ LET known == IF knownLocations.isNull
                    THEN [ isNull |-> FALSE, tokens |-> locationIndexOf(profilesMeta) ]
                    ELSE knownLocations
       IN  /\ knownLocations' = known
           /\ probe' = [ fn |-> "extractGeoTerms", query |-> query, known |-> known.tokens,
                         result |-> extractGeoTerms(query, known.tokens) ]
    /\ UNCHANGED << client, deployment, dataDir, loaded, profilesMeta, embInt8, embScales,
                    reports, reportsFile, penalties, response, search, redis, redisReq, now >>

\* profileMatchesGeo(profilesMeta[idx], geoTerms) in the running implementation
CallProfileMatchesGeo(idx, geoTerms) ==
    /\ search = Idle
    /\ idx \in 1..Len(profilesMeta)
    /\ probe' = [ fn |-> "profileMatchesGeo", idx |-> idx, geoTerms |-> geoTerms,
                  result |-> IF deployment = "client"
                             THEN profileMatchesGeo_client(profilesMeta[idx], geoTerms)
                             ELSE profileMatchesGeo(profilesMeta[idx], geoTerms) ]
    /\ UNCHANGED << client, deployment, dataDir, loaded, profilesMeta, embInt8, embScales,
                    knownLocations, reports, reportsFile, penalties, response, search,
                    redis, redisReq, now >>

\* buildLocationIndex() of the running implementation, run again over the
\* loaded snapshot
CallBuildLocationIndex ==
    /\ search = Idle
    /\ knownLocations' = [ isNull |-> FALSE, tokens |-> locationIndexOf(profilesMeta) ]
    /\ probe' = [ fn |-> "buildLocationIndex", before |-> knownLocations ]
    /\ UNCHANGED << client, deployment, dataDir, loaded, profilesMeta, embInt8, embScales,
                    reports, reportsFile, penalties, response, search, redis, redisReq, now >>

\* extractTopicWords(query, geoTerms) in the running implementation
CallExtractTopicWords(query, geoTerms) ==
    /\ search = Idle
    /\ probe' = [ fn |-> "extractTopicWords", query |-> query, geoTerms |-> geoTerms,
                  result |-> extractTopicWords(query, geoTerms) ]
    /\ UNCHANGED << client, deployment, dataDir, loaded, profilesMeta, embInt8, embScales,
                    knownLocations, reports, reportsFile, penalties, response, search,
                    redis, redisReq, now >>

-----------------------------------------------------------------------------
(* Direct calls of the embedding store *)

\* cosineSimilarityInt8(queryVec, idx) for the query vector with 1 at
\* component k and 0 elsewhere: dot is the dequantized component k
CallCosineSimilarity(k, idx) ==
    /\ search = Idle
    /\ k \in 1..EmbedDim
    /\ idx \in 1..Len(embInt8)
    /\ probe' = [ fn |-> "cosineSimilarityInt8", idx |-> idx, component |-> k,
                  result |-> cosineSimilarityInt8([j \in 1..EmbedDim |-> IF j = k THEN 1 ELSE 0], idx) ]
    /\ UNCHANGED << client, deployment, dataDir, loaded, profilesMeta, embInt8, embScales,
                    knownLocations, reports, reportsFile, penalties, response, search,
                    redis, redisReq, now >>

-----------------------------------------------------------------------------
(* Start-up states and the inputs of the requests *)

\* the largest snapshot holds this many geo matches more than TOP_K_GEO_BROWSE
Overflow == 1

\* sizes of the snapshots: empty; fewer than GEO_FILTER_MIN profiles in
\* Cambridge (3, 5); just GEO_FILTER_MIN (8); more than TOP_K_DISPLAY; more
\* than TOP_K_GEO_BROWSE
CorpusSizes == { 0, 3, 5, 8, 8 + TOP_K_DISPLAY, 3 + TOP_K_GEO_BROWSE + Overflow }

\* vectors the embedder may answer with: the unit vectors and one opposite
UnitVec(k) == [j \in 1..EmbedDim |-> IF j = k THEN 1 ELSE 0]
QueryVecs == { UnitVec(k) : k \in 1..EmbedDim } \cup { [j \in 1..EmbedDim |-> IF j = 1 THEN -1 ELSE 0] }

mkBody(query, hasGeo, geo, topic, queryType) ==
    [ query |-> query, hasGeo |-> hasGeo, geo |-> geo, topic |-> topic, queryType |-> queryType ]

FreeTextQueries ==
    { "", "solar cambridge", "show everything", "solar", "Solar panels in Cambridge",
      "organisations in the UK", "wind oxford", "cambridge", "housing", "food tower hamlets",
      "what's on in east anglia" }

GeoHints == { << >>, << "Cambridge" >>, << "Atlantis" >>, << "Oxford", "oxford" >> }
TopicHints == { "", "solar", "wind turbines" }
QueryTypeHints == { "", "geo-only", "geo+topic", "topic-only" }

SearchBodies ==
    { mkBody(q, FALSE, << >>, "", "") : q \in FreeTextQueries }
    \cup { mkBody("solar cambridge", TRUE, g, t, qt) :
             g \in GeoHints, t \in TopicHints, qt \in QueryTypeHints }
    \cup { mkBody("", h, << >>, t, qt) :
             h \in BOOLEAN, t \in TopicHints \ {"wind turbines"}, qt \in QueryTypeHints }

\* the snapshot of the specifications of the report handlers
SmallCorpus == 8

\* the search requests of the specifications of the report handlers
SmallSearchBodies ==
    { mkBody("solar cambridge", FALSE, << >>, "", ""),
      mkBody("", TRUE, << "Cambridge" >>, "", "geo-only"),
      mkBody("", FALSE, << >>, "", "") }

SmallQueryVecs == { UnitVec(1) }

\* report logs data/reports.json may hold at startup
SearchSeedLogs ==
    { << >>,
      << mkReport(1, "u3", "dead_link", ""), mkReport(2, "u2", "irrelevant", "solar"),
         mkReport(3, "u7", "irrelevant", ""), mkReport(4, "u7", "spam", "") >> }

\* a log in which six different queries flagged u3 as irrelevant
SixQueriesLog ==
    [ i \in 1..6 |-> mkReport(i, "u3", "irrelevant", "query " \o ToString(i)) ]

\* a log with a profile of each kind: dead links only (u3), irrelevance only
\* (u2), both (u7)
MixedLog ==
    << mkReport(1, "u3", "dead_link", ""), mkReport(2, "u2", "irrelevant", "solar"),
       mkReport(3, "u7", "irrelevant", ""), mkReport(4, "u7", "spam", ""),
       mkReport(5, "u7", "dead_link", "wind") >>

ReportSeedLogs == { << >>, MixedLog, SixQueriesLog }

\* the same logs as api/report.js pushed them: newest first, query || ""
asRedisList(log) ==
    [ i \in 1..Len(log) |->
        LET r == log[Len(log) + 1 - i]
        IN  mkRedisReport(r.id, r.profile_url, r.report_type, queryOrEmpty(r)) ]

ReportBodies ==
    { mkReportBody(url, type, query) :
        url \in {"", "u3"}, type \in {"", "dead_link", "irrelevant"}, query \in {"", "solar"} }

\* the requests of the specification of the serverless deployment
RedisSeedLogs == SearchSeedLogs

RedisReportBodies ==
    { mkReportBody("", "dead_link", ""), mkReportBody("u3", "dead_link", ""),
      mkReportBody("u3", "irrelevant", "solar") }

ServerlessSearchBodies ==
    { mkBody("solar cambridge", FALSE, << >>, "", ""), mkBody("", FALSE, << >>, "", "") }

\* ids a delete request may name: a report of the start-up log, the first
\* report added, and an id no report has
DeleteIds == { 1, SeedClock + 1, SeedClock + MaxAdds + 1 }

startIndex(profiles) ==
    IF Len(profiles) > 0
    THEN [ isNull |-> FALSE, tokens |-> buildLocationIndex(profiles) ]
    ELSE NullIndex

\* what the try block of the start-up load leaves set: the three reads come
\* in this order and the first that throws ends the block
LoadOutcomes == { {}, {"profilesMeta"}, {"profilesMeta", "embInt8"}, AllData }

\* the Express server listening, after a start-up load that set the module
\* variables in got, with snapshot size n and persisted log
ExpressBooted(n, log, got) ==
    /\ deployment = "express"
    /\ dataDir = n
    /\ loaded = got
    /\ profilesMeta = IF "profilesMeta" \in got THEN Corpus(n) ELSE << >>
    /\ embInt8 = IF "embInt8" \in got THEN CorpusBytes(n) ELSE << >>
    /\ embScales = IF "embScales" \in got THEN CorpusScales(n) ELSE << >>
    /\ knownLocations = startIndex(IF "profilesMeta" \in got THEN Corpus(n) ELSE << >>)
    /\ reports = log
    /\ reportsFile = log
    /\ response = NoResponse
    /\ penalties = computePenalties(log)
    /\ search = Idle
    /\ redis = << >>
    /\ redisReq = NoRedisReq
    /\ now = SeedClock
    /\ probe = NoProbe
    /\ client = BrowserLoaded(computePenalties(log))

\* the Express server after start-up with snapshot size n and persisted log
ExpressStarted(n, log) ==
    /\ deployment = "express"
    /\ dataDir = n
    /\ loaded = AllData
    /\ profilesMeta = Corpus(n)
    /\ embInt8 = CorpusBytes(n)
    /\ embScales = CorpusScales(n)
    /\ knownLocations = startIndex(Corpus(n))
    /\ reports = log
    /\ reportsFile = log
    /\ response = NoResponse
    /\ penalties = computePenalties(log)
    /\ search = Idle
    /\ redis = << >>
    /\ redisReq = NoRedisReq
    /\ now = SeedClock
    /\ probe = NoProbe
    /\ client = BrowserLoaded(computePenalties(log))

\* the serverless functions before their first request, with snapshot size n
\* in the data directory and list in Redis
ServerlessCold(n, list) ==
    /\ deployment = "serverless"
    /\ dataDir = n
    /\ loaded = {}
    /\ profilesMeta = << >>
    /\ embInt8 = << >>
    /\ embScales = << >>
    /\ knownLocations = NullIndex
    /\ reports = << >>
    /\ reportsFile = << >>
    /\ penalties = NoPenalties
    /\ response = NoResponse
    /\ search = Idle
    /\ redis = list
    /\ redisReq = NoRedisReq
    /\ now = SeedClock
    /\ probe = NoProbe
    /\ client = BrowserLoaded(NoPenalties)

\* an implementation of the analyzer with the snapshot of size n loaded and
\* its Location Index built (the Express server builds none over an empty
\* snapshot)
AnalyzerLoaded(d, n) ==
    /\ deployment = d
    /\ dataDir = n
    /\ loaded = AllData
    /\ profilesMeta = Corpus(n)
    /\ embInt8 = CorpusBytes(n)
    /\ embScales = CorpusScales(n)
    /\ knownLocations = IF d = "express" THEN startIndex(Corpus(n))
                        ELSE [ isNull |-> FALSE,
                               tokens |-> IF d = "client" THEN buildLocationIndex_client(Corpus(n))
                                          ELSE buildLocationIndex(Corpus(n)) ]
    /\ reports = << >>
    /\ reportsFile = << >>
    /\ penalties = NoPenalties
    /\ response = NoResponse
    /\ search = Idle
    /\ redis = << >>
    /\ redisReq = NoRedisReq
    /\ now = SeedClock
    /\ probe = NoProbe
    /\ client = BrowserLoaded(NoPenalties)

Implementations == { "express", "serverless", "client" }

\* snapshots of the analyzer: empty, without and with the profiles in
\* Ireland and in Tyne and Wear
AnalyzerCorpusSizes == { 0, 3, SmallCorpus, SmallCorpus + 2 }

GeoQueries ==
    { "", "organisations in the UK", "projects in northern ireland", "usa", "uk and britain",
      "what's on in east anglia", "solar cambridge", "food tower hamlets", "greater london food",
      "repair cafes in tyne and wear", "Ireland", "co-ops in Ely or Oxford" }

GeoTermLists ==
    { << >>, << "cambridge" >>, << "england" >>, << "ely" >>, << "atlantis", "gb" >>,
      << "london" >>, << "ireland" >>, << "tyne and wear" >>, << "canada", "ca" >> }

\* queries and geo terms extractTopicWords is called with
TopicQueries ==
    { "", "Solar panels in Cambridge", "food tower hamlets", "what's the UK doing about wind",
      "  repair   cafes near me ", "solar SOLAR farms in east anglia", "show everything" }

TopicGeoTermLists ==
    { << >>, << "cambridge" >>, << "tower hamlets" >>,
      << "norfolk", "suffolk", "cambridgeshire", "east anglia" >> }

\* a server with one profile loaded, whose stored vector is bytes and whose
\* scale pair is scale
StoreLoaded(d, bytes, scale) ==
    /\ deployment = d
    /\ dataDir = 1
    /\ loaded = AllData
    /\ profilesMeta = Corpus(1)
    /\ embInt8 = << bytes >>
    /\ embScales = << scale >>
    /\ knownLocations = [ isNull |-> FALSE, tokens |-> buildLocationIndex(Corpus(1)) ]
    /\ reports = << >>
    /\ reportsFile = << >>
    /\ penalties = NoPenalties
    /\ response = NoResponse
    /\ search = Idle
    /\ redis = << >>
    /\ redisReq = NoRedisReq
    /\ now = SeedClock
    /\ probe = NoProbe
    /\ client = BrowserLoaded(NoPenalties)

\* the values of an Int8Array element
Int8 == -128..127

\* stored vectors: any byte in the first component, an extreme byte in the others
StoredVectors ==
    { v \in [1..EmbedDim -> Int8] : \A j \in 2..EmbedDim : v[j] \in {-128, 127} }

\* scale pairs <<min, max>> with min <= max, some with max = min
ScalePairs == { << 0, 1 >>, << -1, 1 >>, << -2, -1 >>, << 0, 0 >>, << -3, -3 >>, << 2, 2 >> }

-----------------------------------------------------------------------------
(* SpecQuant: cosineSimilarityInt8 of the two servers over stored vectors *)
(* and scale pairs                                                        *)

InitQuant ==
    \E d \in {"express", "serverless"}, bytes \in StoredVectors, scale \in ScalePairs :
        StoreLoaded(d, bytes, scale)

NextQuant == \E k \in 1..EmbedDim : CallCosineSimilarity(k, 1)

SpecQuant == InitQuant /\ [][NextQuant]_vars

-----------------------------------------------------------------------------
(* SpecLoad: the search handler of the Express server after each outcome *)
(* of the start-up load                                                  *)

\* the search requests after a start-up load: those of the report
\* specifications and a topic-only search
LoadSearchBodies == SmallSearchBodies \cup { mkBody("solar", FALSE, << >>, "", "") }

InitLoad ==
    \E n \in { 0, 3, SmallCorpus }, got \in LoadOutcomes : ExpressBooted(n, << >>, got)

NextLoad ==
    \/ \E body \in LoadSearchBodies : SearchArrive(body)
    \/ SearchStart
    \/ \E vec \in SmallQueryVecs : SearchEmbedded(vec)
    \/ SearchAnalyse
    \/ ScoreStep
    \/ SearchFinish

SpecLoad == InitLoad /\ [][NextLoad]_vars

-----------------------------------------------------------------------------
(* SpecColdStart: the serverless search handler over a data directory *)
(* whose files may be unreadable when loadData() runs                  *)

InitColdStart == \E n \in AnalyzerCorpusSizes : ServerlessCold(n, << >>)

NextColdStart ==
    \/ \E body \in LoadSearchBodies : SearchArrive(body)
    \/ SearchStart
    \/ \E got \in LoadOutcomes : SearchStartLoadFails(got)
    \/ \E vec \in SmallQueryVecs : SearchEmbedded(vec)
    \/ SearchAnalyse
    \/ ScoreStep
    \/ SearchFinish

SpecColdStart == InitColdStart /\ [][NextColdStart]_vars

-----------------------------------------------------------------------------
(* SpecGeo: extractGeoTerms and profileMatchesGeo of the three *)
(* implementations, called over the queries and the snapshots  *)

InitGeo == \E d \in Implementations, n \in AnalyzerCorpusSizes : AnalyzerLoaded(d, n)

NextGeo ==
    \/ \E query \in GeoQueries : CallExtractGeoTerms(query)
    \/ \E idx \in 1..(SmallCorpus + 2), geoTerms \in GeoTermLists : CallProfileMatchesGeo(idx, geoTerms)
    \/ \E query \in TopicQueries, geoTerms \in TopicGeoTermLists : CallExtractTopicWords(query, geoTerms)
    \/ CallBuildLocationIndex

SpecGeo == InitGeo /\ [][NextGeo]_vars

-----------------------------------------------------------------------------
(* SpecSearch: the search handler of the Express server over the snapshots *)
(* and the request bodies                                                   *)

InitSearch == \E n \in CorpusSizes, log \in SearchSeedLogs : ExpressStarted(n, log)

NextSearch ==
    \/ \E body \in SearchBodies : SearchArrive(body)
    \/ SearchStart
    \/ \E vec \in QueryVecs : SearchEmbedded(vec)
    \/ SearchAnalyse
    \/ ScoreStep
    \/ SearchFinish

SpecSearch == InitSearch /\ [][NextSearch]_vars

-----------------------------------------------------------------------------
(* SpecReports: the report handlers of the Express server, with searches *)
(* in flight                                                              *)

InitReports == \E log \in ReportSeedLogs : ExpressStarted(SmallCorpus, log)

NextReports ==
    \/ \E body \in SmallSearchBodies : SearchArrive(body)
    \/ SearchStart
    \/ \E vec \in SmallQueryVecs : SearchEmbedded(vec)
    \/ SearchAnalyse
    \/ ScoreStep
    \/ SearchFinish
    \/ \E body \in ReportBodies : ReportPost(body, 0)
    \/ \E id \in DeleteIds : ReportDelete(id)
    \/ ReportsGet
    \/ PenaltiesGet(0)

SpecReports == InitReports /\ [][NextReports]_vars

-----------------------------------------------------------------------------
(* SpecClient: submitReport calls of the browser client against the *)
(* Express server                                                   *)

\* the reports the client submits
ClientReportBodies ==
    { mkReportBody("u3", "dead_link", "solar"), mkReportBody("u2", "irrelevant", "solar"),
      mkReportBody("u2", "feedback", "") }

InitClient == \E log \in { << >>, MixedLog } : ExpressStarted(SmallCorpus, log)

NextClient ==
    \/ \E c \in Callers, body \in ClientReportBodies : SubmitReport(c, body)
    \/ \E c \in Callers : ReportPost(client.calls[c].body, c)
    \/ \E c \in Callers : LoadPenaltiesSend(c)
    \/ \E c \in Callers : PenaltiesGet(c)
    \/ \E c \in Callers : LoadPenaltiesReceive(c)

SpecClient == InitClient /\ [][NextClient]_vars

-----------------------------------------------------------------------------
(* SpecServerless: the serverless search handler and the Redis-backed *)
(* report API                                                         *)

InitServerless == \E log \in RedisSeedLogs : ServerlessCold(SmallCorpus, asRedisList(log))

NextServerless ==
    \/ \E body \in ServerlessSearchBodies : SearchArrive(body)
    \/ SearchStart
    \/ \E vec \in SmallQueryVecs : SearchEmbedded(vec)
    \/ SearchAnalyse
    \/ ScoreStep
    \/ SearchFinish
    \/ \E body \in RedisReportBodies : RedisPost(body)
    \/ RedisTrim
    \/ \E id \in {0, 1, SeedClock + 1} : RedisDeleteRead(id)
    \/ RedisDeleteDel
    \/ RedisDeleteRpush
    \/ RedisReportsGet

SpecServerless == InitServerless /\ [][NextServerless]_vars

-----------------------------------------------------------------------------
(* Properties of searchProfilesServer, checked under SpecSearch *)

\* the last request was a search answered with 200
SearchAnswered == response.kind = "search" /\ response.status = 200
SR == response.searchResult

\* the profiles one of whose location fields contains one of the terms
GeoMatchSet(terms) ==
    { i \in 1..Len(profilesMeta) : profileMatchesGeo(profilesMeta[i], terms) }

descLen(i) == Len(profilesMeta[i].description)
ResultIdx == { SR.results[k].idx : k \in 1..Len(SR.results) }

\* some topic word occurs in the name, the description or a tag of profile i
HasKeywordHit(i, topicWords) ==
    \E k \in 1..Len(topicWords) :
        \E f \in {profilesMeta[i].name, profilesMeta[i].description} \cup SeqToSet(profilesMeta[i].tags) :
            includes(toLowerCase(f), topicWords[k])

\* the results are distinct geo matches in non-increasing order of description
\* length, and no geo match left out has a longer description than one shown
IsGeoBrowseOf(results, terms) ==
    /\ \A k \in 1..Len(results) : results[k].idx \in GeoMatchSet(terms)
    /\ \A k, l \in 1..Len(results) : k < l =>
          /\ results[k].idx # results[l].idx
          /\ descLen(results[k].idx) >= descLen(results[l].idx)
    /\ \A j \in GeoMatchSet(terms) \ { results[k].idx : k \in 1..Len(results) } :
          \A k \in 1..Len(results) : descLen(j) <= descLen(results[k].idx)

\* the geo-matched profiles scored as the answered request scored them
ScoredGeoMatches ==
    LET geo == geoMatchIndices(SR.geoTerms)
    IN  [i \in 1..Len(geo) |->
           scoreProfile(geo[i], 1, response.request.queryEmbedding, SR.topicWords, penalties)]

\* C2's case: a geo+topic search with enough geo matches whose strict filter
\* over the top-K leaves nothing
StrictFilterEmpty ==
    /\ SearchAnswered
    /\ Len(SR.geoTerms) > 0
    /\ Len(SR.topicWords) > 0
    /\ Cardinality(GeoMatchSet(SR.geoTerms)) >= GEO_FILTER_MIN
    /\ LET ranked == sortByScoreDesc(ScoredGeoMatches)
       IN  \A k \in 1..Min(TOP_K_DISPLAY, Len(ranked)) :
              ~(atLeast(ranked[k].rawSemantic, RELEVANCE_THRESHOLD) /\ ranked[k].kwBoost.num > 0)

\* C1: a search whose geo terms are non-empty and match fewer than 5 profiles
\* returns no results and a non-empty note naming every attempted geo term
\* (capitalised); nothing of the corpus is returned as a fallback.
C1_FewGeoMatchesGiveNote ==
    (SearchAnswered /\ Len(SR.geoTerms) > 0
       /\ Cardinality(GeoMatchSet(SR.geoTerms)) < GEO_FILTER_MIN)
    => /\ SR.results = << >>
       /\ response.json.results = << >>
       /\ SR.geoNote # ""
       /\ response.json.geoNote = SR.geoNote
       /\ \A k \in 1..Len(SR.geoTerms) : includes(SR.geoNote, capitalize(SR.geoTerms[k]))

\* witness of C1: a free-text query naming a place that 1 to 4 profiles of a
\* corpus of at least 5 are in, answered with the note
C1_Witness ==
    /\ SearchAnswered
    /\ ~response.request.body.hasGeo
    /\ Len(profilesMeta) >= GEO_FILTER_MIN
    /\ Len(SR.geoTerms) > 0
    /\ Len(SR.topicWords) > 0
    /\ Cardinality(GeoMatchSet(SR.geoTerms)) \in 1..(GEO_FILTER_MIN - 1)
    /\ SR.geoNote # ""

C3_TierBKeywordGate ==
    (SearchAnswered /\ Len(SR.geoTerms) > 0 /\ Len(SR.topicWords) > 0
       /\ SR.queryType # "geo+topic-fallback")
    => \A k \in 1..Len(SR.results) :
          /\ atLeast(SR.results[k].rawSemantic, RELEVANCE_THRESHOLD)
          /\ SR.results[k].kwBoost.num > 0
          /\ HasKeywordHit(SR.results[k].idx, SR.topicWords)
          /\ SR.results[k].idx \in GeoMatchSet(SR.geoTerms)

\* witness of C3: "solar cambridge" returns Cambridge Solar Co-op (profile 3)
\* and not Transition Cambridge (profile 2), which is a geo match too
C3_Witness ==
    /\ SearchAnswered
    /\ SR.geoTerms = << "cambridge" >>
    /\ SR.topicWords = << "solar" >>
    /\ SR.queryType = "geo+topic"
    /\ 3 \in ResultIdx
    /\ 2 \notin ResultIdx
    /\ 2 \in GeoMatchSet(SR.geoTerms)
    /\ ~HasKeywordHit(2, SR.topicWords)

\* C4 as claimed: in Tier C every result has raw_relevance >= 0.35 and
\* (keyword_boost > 0 or raw_relevance >= 0.5), topic words or not.
C4_TierCGateAlways ==
    (SearchAnswered /\ Len(SR.geoTerms) = 0)
    => \A k \in 1..Len(SR.results) :
          /\ atLeast(SR.results[k].rawSemantic, RELEVANCE_THRESHOLD)
          /\ (SR.results[k].kwBoost.num > 0
              \/ atLeast(SR.results[k].rawSemantic, STANDALONE_THRESHOLD))

\* C4 amended: in Tier C every result has raw_relevance >= 0.35, and, when
\* topic words were extracted, keyword_boost > 0 or raw_relevance >= 0.5.
C4_TierCGate ==
    (SearchAnswered /\ Len(SR.geoTerms) = 0)
    => \A k \in 1..Len(SR.results) :
          /\ atLeast(SR.results[k].rawSemantic, RELEVANCE_THRESHOLD)
          /\ (Len(SR.topicWords) > 0 =>
                (HasKeywordHit(SR.results[k].idx, SR.topicWords)
                 \/ atLeast(SR.results[k].rawSemantic, STANDALONE_THRESHOLD)))

\* witness of C4: a topic-only search with topic words that returns a profile
\* on its semantic score alone and leaves out one between 0.35 and 0.5
C4_Witness ==
    /\ SearchAnswered
    /\ Len(SR.geoTerms) = 0
    /\ Len(SR.topicWords) > 0
    /\ \E k \in 1..Len(SR.results) :
          /\ ~HasKeywordHit(SR.results[k].idx, SR.topicWords)
          /\ atLeast(SR.results[k].rawSemantic, STANDALONE_THRESHOLD)
    /\ \E i \in 1..Len(profilesMeta) :
          LET r == scoreProfile(i, 1, response.request.queryEmbedding, SR.topicWords, penalties)
          IN  /\ i \notin ResultIdx
              /\ atLeast(r.rawSemantic, RELEVANCE_THRESHOLD)
              /\ ~atLeast(r.rawSemantic, STANDALONE_THRESHOLD)

-----------------------------------------------------------------------------
(* Properties of the penalties table, checked under SpecReports and *)
(* SpecServerless                                                   *)

\* the report log of the deployment: the array of the Express server or the
\* Redis list
currentLog == IF deployment = "serverless" THEN redis ELSE reports

\* the reports of one type about one profile
reportsOf(url, type) ==
    { i \in 1..Len(currentLog) :
        currentLog[i].profile_url = url /\ currentLog[i].report_type = type }

ReportedUrls == { currentLog[i].profile_url : i \in 1..Len(currentLog) }

DeadLinkCount(url) == Cardinality(reportsOf(url, "dead_link"))
IrrelevantCount(url) == Cardinality(reportsOf(url, "irrelevant"))

\* the reports of the profile flagged irrelevant without a query
MissingQueryReports(url) == { i \in reportsOf(url, "irrelevant") : currentLog[i].query = << >> }

\* the distinct query strings of the irrelevance reports of a profile, a
\* missing query being the empty string
DistinctQueries(url) ==
    { IF currentLog[i].query = << >> THEN "" ELSE currentLog[i].query[1]
      : i \in reportsOf(url, "irrelevant") }

OnlyDeadLink(url) == DeadLinkCount(url) > 0 /\ IrrelevantCount(url) = 0
OnlyIrrelevant(url) == DeadLinkCount(url) = 0 /\ IrrelevantCount(url) > 0
BothTypes(url) == DeadLinkCount(url) > 0 /\ IrrelevantCount(url) > 0

\* the table of the log reduced to its reports of one type
TableOfType(type) == computePenalties(SelectSeq(currentLog, LAMBDA r : r.report_type = type))

\* max(0.5, 0.9^d) in millionths, written out
TenthPowers == << 900000, 810000, 729000, 656100, 590490, 531441 >>
ExpectedIrrelevant(d) == IF d > Len(TenthPowers) THEN PEN_ONE \div 2 ELSE TenthPowers[d]

\* semantic * (1 + kwBoost) of a scored entry of the search in flight, times
\* SEM_ONE * kwBoost.den
Unpenalised(e) ==
    (IF search.queryEmbedding # NoEmbedding
     THEN cosineSimilarityInt8(search.queryEmbedding, e.idx) ELSE 0)
    * (e.kwBoost.den + e.kwBoost.num)

\* C5: after any sequence of report additions and deletions every entry of
\* the penalties table is a multiplier m with 0 < m <= 1, and a profile
\* without an entry is scored with the multiplier 1.
C5_MultipliersInRange ==
    /\ \A url \in DOMAIN penalties : 0 < penalties[url] /\ penalties[url] <= PEN_ONE
    /\ search.pc = "scoring" =>
         \A k \in 1..Len(search.scored) :
            LET e == search.scored[k]
                url == profilesMeta[e.idx].profile_url
                table == search.tables[k]
            IN  e.score = Unpenalised(e) * (IF url \in DOMAIN table THEN table[url] ELSE PEN_ONE)

\* reports were added and one was deleted, and the search in flight has scored
\* a profile with an entry and a profile without one
C5_Witness ==
    /\ now > SeedClock
    /\ response.kind = "delete" /\ response.status = 200
    /\ search.pc = "scoring"
    /\ \E k, l \in 1..Len(search.scored) :
          /\ profilesMeta[search.scored[k].idx].profile_url \in DOMAIN penalties
          /\ profilesMeta[search.scored[l].idx].profile_url \notin DOMAIN penalties
          /\ Unpenalised(search.scored[l]) # 0

\* C6 as stated: a profile with only dead-link reports has a multiplier in
\* the half-open interval (0.1, 1], one with only irrelevance reports a
\* multiplier in [0.5, 1], and one with both the minimum of the two.
C6_DeadLinkAboveTenth ==
    \A url \in ReportedUrls :
        /\ OnlyDeadLink(url) =>
             url \in DOMAIN penalties
             /\ PEN_ONE \div 10 < penalties[url] /\ penalties[url] <= PEN_ONE
        /\ OnlyIrrelevant(url) =>
             url \in DOMAIN penalties
             /\ PEN_ONE \div 2 <= penalties[url] /\ penalties[url] <= PEN_ONE
        /\ BothTypes(url) =>
             url \in DOMAIN penalties
             /\ penalties[url] = Min(TableOfType("dead_link")[url], TableOfType("irrelevant")[url])

\* C6, amended: a profile with only dead-link reports has a multiplier in the
\* closed interval [0.1, 1], one with only irrelevance reports a multiplier
\* in [0.5, 1], and one with both the minimum of its dead-link multiplier and
\* its irrelevance multiplier.
C6_MultiplierRanges ==
    \A url \in ReportedUrls :
        /\ OnlyDeadLink(url) =>
             url \in DOMAIN penalties
             /\ PEN_ONE \div 10 <= penalties[url] /\ penalties[url] <= PEN_ONE
        /\ OnlyIrrelevant(url) =>
             url \in DOMAIN penalties
             /\ PEN_ONE \div 2 <= penalties[url] /\ penalties[url] <= PEN_ONE
        /\ BothTypes(url) =>
             url \in DOMAIN penalties
             /\ penalties[url] = Min(TableOfType("dead_link")[url], TableOfType("irrelevant")[url])

\* a report was added, and the log holds a profile of each kind: dead links
\* only, irrelevance only, and both
C6_Witness ==
    /\ response.kind = "report" /\ response.status = 200
    /\ \E url \in ReportedUrls : OnlyDeadLink(url)
    /\ \E url \in ReportedUrls : OnlyIrrelevant(url)
    /\ \E url \in ReportedUrls : BothTypes(url)

\* C7: a profile with n >= 1 dead-link reports has the multiplier 0.1
\* exactly, whatever n is.
C7_DeadLinkIsOneTenth ==
    \A url \in ReportedUrls :
        DeadLinkCount(url) >= 1 =>
            url \in DOMAIN penalties /\ penalties[url] = PEN_ONE \div 10

\* a dead-link report was added for a profile that had one already
C7_Witness ==
    /\ response.kind = "report" /\ response.status = 200
    /\ \E url \in ReportedUrls :
          /\ DeadLinkCount(url) >= 2
          /\ currentLog[Len(currentLog)].profile_url = url
          /\ currentLog[Len(currentLog)].report_type = "dead_link"

\* C8: a profile with only irrelevance reports has the multiplier
\* max(0.5, 0.9^d), d being the number of distinct query strings of these
\* reports, a missing query counting as the empty string.
C8_IrrelevanceByDistinctQueries ==
    \A url \in ReportedUrls :
        OnlyIrrelevant(url) =>
            url \in DOMAIN penalties
            /\ penalties[url] = ExpectedIrrelevant(Cardinality(DistinctQueries(url)))

\* a profile has two irrelevance reports without a query and, beside them,
\* reports enough for the floor to apply
C8_Witness ==
    \E url \in ReportedUrls :
        /\ OnlyIrrelevant(url)
        /\ Cardinality(MissingQueryReports(url)) >= 2
        /\ Cardinality(DistinctQueries(url)) > Len(TenthPowers)

\* C9: in every state reached by a completed report add or report delete,
\* the penalties table consulted by search is computePenalties of the
\* current report log.
C9_TableFollowsLog ==
    (response.kind \in {"report", "delete"} /\ response.status = 200)
        => penalties = computePenalties(currentLog)

\* C10: whatever the interleaving of search requests with report adds and
\* deletes, all the lookups of one call of searchProfilesServer read the same
\* table, and that table is a fully computed one.
C10_OneTablePerSearch ==
    search.pc = "scoring" =>
        \A k \in 1..Len(search.tables) :
            /\ search.tables[k] = search.tables[1]
            /\ search.tables[k] = computePenalties(reports)

\* a report was added while the search awaited its embedding, and the search
\* has made several lookups since
C10_Witness ==
    /\ search.pc = "scoring"
    /\ Len(search.tables) >= 2
    /\ response.kind = "report" /\ response.status = 200
    /\ DOMAIN search.tables[1] # {}

-----------------------------------------------------------------------------
(* Properties of the classification and of the tiers, checked under *)
(* SpecSearch                                                       *)

\* the tier whose branch of searchProfilesServer produced the answer
ExecutedTier ==
    IF Len(SR.geoTerms) = 0 THEN "topic-only"
    ELSE IF Len(SR.topicWords) = 0 THEN "geo-only"
    ELSE "geo+topic"

\* the classification of the answer, the fallback tag read as geo+topic
Classification == IF SR.queryType = "geo+topic-fallback" THEN "geo+topic" ELSE SR.queryType

\* C11: the classification a search returns is determined by the emptiness
\* of the geo terms and topic words used (geo-only iff geo terms and no topic
\* words, geo+topic iff both, topic-only iff no geo terms), and the tier that
\* ran is the one the classification names, with free text and with hints.
C11_ClassificationByEmptiness ==
    SearchAnswered =>
        /\ Classification = "geo-only" <=> (Len(SR.geoTerms) > 0 /\ Len(SR.topicWords) = 0)
        /\ Classification = "geo+topic" <=> (Len(SR.geoTerms) > 0 /\ Len(SR.topicWords) > 0)
        /\ Classification = "topic-only" <=> Len(SR.geoTerms) = 0
        /\ Classification = ExecutedTier
        /\ Classification = "topic-only" => (SR.totalGeoMatches = None /\ SR.geoNote = "")

KeywordHits(i) == topicKeywordBoost(profilesMeta[i], SR.topicWords).num

\* C14: a search without a query embedding completes without error, scores
\* every profile with semantic similarity 0, and ranks the results it returns
\* by the geo and keyword signals alone: every result passes the geo filter,
\* and a result with more keyword hits is never placed after one with fewer.
C14_NoEmbeddingRanksByKeywords ==
    (response.kind = "search" /\ response.status # 400
       /\ response.request.queryEmbedding = NoEmbedding)
    => /\ response.status = 200
       /\ \A k \in 1..Len(SR.results) : SR.results[k].rawSemantic.num = 0
       /\ Len(SR.geoTerms) > 0 =>
             \A k \in 1..Len(SR.results) : SR.results[k].idx \in GeoMatchSet(SR.geoTerms)
       /\ \A k, l \in 1..Len(SR.results) :
             k < l => KeywordHits(SR.results[k].idx) >= KeywordHits(SR.results[l].idx)

\* the answered search ran Tier B: geo terms, topic words and at least
\* GEO_FILTER_MIN geo matches
TierBRan ==
    /\ SearchAnswered
    /\ Len(SR.geoTerms) > 0
    /\ Len(SR.topicWords) > 0
    /\ Cardinality(GeoMatchSet(SR.geoTerms)) >= GEO_FILTER_MIN

\* raw_relevance >= 0.35 and keyword_boost > 0
MeetsStrict(r) == 100 * r.rawSemantic.num >= 35 * r.rawSemantic.den /\ r.kwBoost.num > 0

\* the geo matches in order of score, and the positions among the first
\* TOP_K_DISPLAY of them that meet the strict filter
RankedGeoMatches == sortByScoreDesc(ScoredGeoMatches)
TopKPassing ==
    { k \in 1..Len(RankedGeoMatches) : k <= TOP_K_DISPLAY /\ MeetsStrict(RankedGeoMatches[k]) }

\* C24 as claimed: when some geo-matched profile of the corpus has
\* raw_relevance >= 0.35 and keyword_boost > 0, the answer of a geo+topic
\* search is not the geo+topic-fallback.
C24_FallbackOnlyWhenNoGeoMatchPasses ==
    (SearchAnswered /\ Len(SR.geoTerms) > 0 /\ Len(SR.topicWords) > 0
       /\ \E i \in 1..Len(ScoredGeoMatches) : MeetsStrict(ScoredGeoMatches[i]))
    => SR.queryType # "geo+topic-fallback"

\* C24 amended: in Tier B the fallback is taken exactly when none of the
\* first TOP_K_DISPLAY (20) geo matches in order of penalised score meets the
\* strict filter; when one of them does, the results are those of the first
\* 20 that meet it, in that order, under the classification of the request.
C24_FallbackOnlyWhenTopKFails ==
    TierBRan =>
        IF TopKPassing = {}
        THEN /\ SR.queryType = "geo+topic-fallback"
             /\ SR.totalGeoMatches = Cardinality(GeoMatchSet(SR.geoTerms))
        ELSE /\ SR.queryType = IF response.request.body.queryType # ""
                               THEN response.request.body.queryType ELSE "geo+topic"
             /\ SR.totalGeoMatches = None
             /\ Len(SR.results) = Cardinality(TopKPassing)
             /\ \A k \in 1..Len(SR.results) :
                   SR.results[k].idx = RankedGeoMatches[nth(TopKPassing, k)].idx

\* the fallback was taken although a geo match ranked below the first 20
\* meets the strict filter
C24_Witness ==
    /\ TierBRan
    /\ TopKPassing = {}
    /\ SR.queryType = "geo+topic-fallback"
    /\ \E k \in 1..Len(RankedGeoMatches) : k > TOP_K_DISPLAY /\ MeetsStrict(RankedGeoMatches[k])

\* C25: the ranking score scoreProfile computes for a profile under a
\* penalty multiplier below 1 is never greater than the score the same call
\* gives under multiplier 1, whatever the sign of the semantic similarity.
C25_PenaltyNeverRaisesScore ==
    search.pc = "scoring" =>
        \A k \in 1..Len(search.scored) :
            LET e == search.scored[k]
                url == profilesMeta[e.idx].profile_url
            IN  penaltyOf(search.tables[k], url) < PEN_ONE =>
                    e.score <= scoreProfile(e.idx, 1, search.queryEmbedding,
                                            search.plan.topicWords, NoPenalties).score

\* a location field of profile i, lower-cased, contains one of the terms
InPlace(i, terms) ==
    \E k \in 1..Len(terms) :
        \E f \in {profilesMeta[i].locality, profilesMeta[i].region, profilesMeta[i].country} \ {""} :
            includes(toLowerCase(f), terms[k])

\* C26: when the geo terms a search used are not empty, every profile of
\* the returned results (Tier A, Tier B, geo+topic-fallback) matches one of
\* them, whatever classification label came with the request or is returned.
C26_ResultsMatchGeoTerms ==
    (SearchAnswered /\ Len(SR.geoTerms) > 0)
    => /\ \A k \in 1..Len(SR.results) : InPlace(SR.results[k].idx, SR.geoTerms)
       /\ \A k \in 1..Len(response.json.results) :
             InPlace(response.json.results[k]._idx, response.json.geoTerms)

\* a request with the geo hint Cambridge labelled topic-only: the answer keeps
\* the label and holds profiles in Cambridge only, not the one in Oxford
C26_Witness ==
    /\ SearchAnswered
    /\ response.request.body.queryType = "topic-only"
    /\ SR.queryType = "topic-only"
    /\ SR.geoTerms = << "cambridge" >>
    /\ Len(SR.results) >= GEO_FILTER_MIN
    /\ 1 \notin ResultIdx
    /\ ~InPlace(1, SR.geoTerms)

-----------------------------------------------------------------------------
(* Properties of extractGeoTerms and profileMatchesGeo, checked under *)
(* SpecGeo                                                            *)

GeoTermsCalled == probe.fn = "extractGeoTerms"

\* the query as extractGeoTerms scans it
ScannedQuery == stripApostrophes(toLowerCase(probe.query))

\* the alias table of the running implementation
AliasTable ==
    CASE deployment = "serverless" -> GEO_ALIASES_serverless
      [] deployment = "client" -> GEO_ALIASES_client
      [] OTHER -> GEO_ALIASES

\* the entries whose key occurs in the scanned query
KeysInQuery == { i \in 1..Len(AliasTable) : includes(ScannedQuery, AliasTable[i].key) }

\* the key of entry i is a word of another, multi-word key that occurs in the
\* query too
Shadowed(i) ==
    \E j \in KeysInQuery :
        /\ AliasTable[j].key # AliasTable[i].key
        /\ AliasTable[i].key \in SeqToSet(splitWs(AliasTable[j].key))

\* the tokens the alias scan emits: those of the keys in the query that no
\* longer key shadows
AliasEmitted ==
    UNION { SeqToSet(AliasTable[i].vals) : i \in { j \in KeysInQuery : ~Shadowed(j) } }

\* C12 as claimed: every alias key that occurs in the lower-cased,
\* apostrophe-stripped query has all its canonical tokens in the list
\* extractGeoTerms returns.
C12_EveryAliasKeyExpands ==
    GeoTermsCalled =>
        \A i \in KeysInQuery :
            \A v \in SeqToSet(AliasTable[i].vals) : inArray(probe.result, v)

\* C12 amended: every alias key that occurs in the scanned query, and is not
\* a word of a multi-word alias key that occurs in it too, has all its
\* canonical tokens in the list extractGeoTerms returns.
C12_UnshadowedAliasKeyExpands ==
    GeoTermsCalled =>
        \A i \in KeysInQuery :
            ~Shadowed(i) => \A v \in SeqToSet(AliasTable[i].vals) : inArray(probe.result, v)

\* "organisations in the UK" yields england, scotland, wales and northern
\* ireland, none of which is in the query
C12_Witness ==
    /\ GeoTermsCalled
    /\ probe.query = "organisations in the UK"
    /\ \A v \in {"england", "scotland", "wales", "northern ireland"} :
          inArray(probe.result, v) /\ ~includes(ScannedQuery, v)

\* C19: alias keys are tried in descending order of key length (so that a key
\* that is a word of a longer key in the query is not expanded), and a query
\* word that is a word of a matched alias key is not emitted by the
\* single-word Location Index check, also when the Location Index holds it.
C19_LongestAliasFirst ==
    GeoTermsCalled =>
        /\ \A i, j \in 1..Len(aliasKeys) :
              i < j => Len(aliasKeys[i].key) >= Len(aliasKeys[j].key)
        /\ \A i \in KeysInQuery :
              IF Shadowed(i)
              THEN \A v \in SeqToSet(AliasTable[i].vals) :
                      (v \notin AliasEmitted /\ v \notin probe.known) => ~inArray(probe.result, v)
              ELSE \A w \in SeqToSet(splitWs(AliasTable[i].key)) :
                      w \notin AliasEmitted => ~inArray(probe.result, w)

\* "projects in northern ireland" over a Location Index that holds "ireland":
\* the key "northern ireland" is expanded, the word "ireland" is not emitted
C19_Witness ==
    /\ GeoTermsCalled
    /\ probe.query = "projects in northern ireland"
    /\ "ireland" \in probe.known
    /\ inArray(probe.result, "northern ireland")
    /\ ~inArray(probe.result, "ireland")
    /\ ~inArray(probe.result, "ie")

\* C15: profileMatchesGeo is true exactly when some geo term is a substring
\* of the lower-cased locality, region or country of the profile, without any
\* word-boundary requirement, in every implementation.
C15_GeoFilterIsSubstring ==
    probe.fn = "profileMatchesGeo" =>
        LET p == profilesMeta[probe.idx]
        IN  probe.result <=>
              \E k \in 1..Len(probe.geoTerms) :
                 \E f \in {p.locality, p.region, p.country} \ {""} :
                    includes(toLowerCase(f), probe.geoTerms[k])

\* C20: the list extractGeoTerms returns holds no term twice.
C20_GeoTermsDistinct ==
    GeoTermsCalled =>
        \A k, l \in 1..Len(probe.result) : k # l => probe.result[k] # probe.result[l]

-----------------------------------------------------------------------------
(* Properties of the embedding store, checked under SpecQuant *)

\* C16: for every stored vector with scale pair (min, max) and every stored
\* byte in -128..127 the dequantized value computed by cosineSimilarityInt8
\* lies within [min, max], also when max equals min.  (The value is the
\* result for a unit query vector, over SEM_ONE.)
C16_DequantWithinScale ==
    probe.fn = "cosineSimilarityInt8" =>
        /\ SEM_ONE * embScales[probe.idx][1] <= probe.result
        /\ probe.result <= SEM_ONE * embScales[probe.idx][2]

\* C23: cosineSimilarityInt8 decodes a stored byte b as (b + 128) * scale +
\* min, with scale = (max - min) / 255 when max differs from min and
\* scale = 1 when max equals min.  (Both sides times SEM_ONE = 255; the
\* result for the unit query vector of a component is the decoded byte.)
C23_DecodeFormula ==
    probe.fn = "cosineSimilarityInt8" =>
        LET b == embInt8[probe.idx][probe.component]
            mn == embScales[probe.idx][1]
            mx == embScales[probe.idx][2]
        IN  probe.result = IF mx # mn
                           THEN (b + 128) * (mx - mn) + SEM_ONE * mn
                           ELSE (b + 128) * SEM_ONE + SEM_ONE * mn

-----------------------------------------------------------------------------
(* Properties of the start-up load, checked under SpecLoad *)

\* C17: unreadable quantization data is fatal at load time: a server whose
\* load did not set the embedding blob and the scale table never accepts a
\* search request and then fails it.
C17_FailedLoadIsFatal ==
    loaded # AllData => ~(response.kind = "search" /\ response.status = 500)

-----------------------------------------------------------------------------
(* Properties of the recomputation of the penalties table, checked under *)
(* SpecReports                                                           *)

-----------------------------------------------------------------------------
(* Properties of extractTopicWords, checked under SpecGeo *)

TopicWordsCalled == probe.fn = "extractTopicWords"

\* the white-space separated words of the lower-cased, apostrophe-stripped query
QueryWords == splitWs(stripApostrophes(toLowerCase(probe.query)))

\* w is a word of a key or of an expansion of the alias table
IsAliasWord(w) ==
    \E i \in 1..Len(AliasTable) :
        \/ w \in SeqToSet(splitWs(AliasTable[i].key))
        \/ \E j \in 1..Len(AliasTable[i].vals) : w \in SeqToSet(splitWs(AliasTable[i].vals[j]))

\* w is a word of a geo term supplied to the call
IsGeoTermWord(w) ==
    \E k \in 1..Len(probe.geoTerms) : w \in SeqToSet(splitWs(probe.geoTerms[k]))

IsStopword(w) == w \in (IF deployment = "serverless" THEN STOPWORDS_serverless ELSE STOPWORDS)

IsTopicWord(w) == Len(w) >= 3 /\ ~IsStopword(w) /\ ~IsAliasWord(w) /\ ~IsGeoTermWord(w)

\* C21: every word extractTopicWords returns has length >= 3, is no stopword
\* and is no word of an alias key, of an alias expansion or of a supplied geo
\* term; and every word of the query that meets these conditions is
\* returned, in query order.
C21_TopicWordsAreTheQualifyingWords ==
    TopicWordsCalled =>
        LET kept == { i \in 1..Len(QueryWords) : IsTopicWord(QueryWords[i]) }
        IN  /\ \A k \in 1..Len(probe.result) : IsTopicWord(probe.result[k])
            /\ Len(probe.result) = Cardinality(kept)
            /\ \A k \in 1..Len(probe.result) : probe.result[k] = QueryWords[nth(kept, k)]

\* "food tower hamlets" with the geo term "tower hamlets": only "food" is left
C21_Witness ==
    /\ TopicWordsCalled
    /\ probe.query = "food tower hamlets"
    /\ probe.geoTerms = << "tower hamlets" >>
    /\ probe.result = << "food" >>

-----------------------------------------------------------------------------
(* Properties of the Location Index, checked under SpecGeo *)

\* C22: after buildLocationIndex every token of the Location Index is
\* lower-case, trimmed, of length >= 2 and holds none of the separators ':',
\* '|', '&'; and building the index again from the same snapshot yields the
\* same set.
C22_LocationTokensNormalised ==
    probe.fn = "buildLocationIndex" =>
        /\ \A t \in knownLocations.tokens :
              /\ toLowerCase(t) = t
              /\ trim(t) = t
              /\ Len(t) >= 2
              /\ \A i \in 1..Len(t) : SubSeq(t, i, i) \notin {":", "|", "&"}
        /\ ~probe.before.isNull => knownLocations = probe.before

-----------------------------------------------------------------------------
(* Properties of the Redis-backed report API, checked under SpecServerless *)

\* no report request of the serverless functions is in flight
RedisQuiet == redisReq = NoRedisReq

\* the ids POST /api/report has issued that no delete request names
KeptIds == { id \in (SeedClock + 1)..now : id # SeedClock + 1 }

\* C27: DELETE /api/reports/<id> removes the reports with that id only: a
\* report appended by a POST /api/report, also one that ran concurrently with
\* a delete of another id, is in the log once the requests have completed.
C27_DeleteKeepsOtherReports ==
    RedisQuiet => \A id \in KeptIds : \E i \in 1..Len(redis) : redis[i].id = id

-----------------------------------------------------------------------------
(* Properties of the browser client, checked under SpecClient *)

\* every submitReport call has returned, and one has run
NoCallInFlight == \A c \in Callers : client.calls[c].pc = "idle"

\* C28: once every submitReport call in flight has completed, its POST
\* followed by its loadPenalties fetch, the penalties map of the client is
\* the penalty table of the server for the current report log, in whatever
\* order the answers of the fetches of concurrent calls arrive.
C28_ClientTableIsCurrent ==
    NoCallInFlight => client.penalties = computePenalties(reports)

-----------------------------------------------------------------------------
(* Properties of the lazy load of the serverless handler, checked under *)
(* SpecColdStart                                                        *)

\* C29: loadData of the serverless handler is all-or-nothing across
\* requests: after a load that failed part-way a later request loads again,
\* so no request runs searchProfilesServer with profilesMeta set while
\* embInt8 or embScales is still null.
C29_LoadIsAllOrNothing ==
    (deployment = "serverless" /\ search.pc = "scoring" /\ "profilesMeta" \in loaded)
    => loaded = AllData

-----------------------------------------------------------------------------
(* Properties of the rejected report requests, checked under SpecReports *)

\* the report log, the persisted file and the penalties table stay as they are
ReportStateKept == reports' = reports /\ reportsFile' = reportsFile /\ penalties' = penalties

\* C30: on the Express server a rejected report request changes nothing:
\* DELETE /api/reports/:id with an id no report of the log has answers 404,
\* POST /api/report without profile_url or report_type answers 400, and both
\* leave the report log, the persisted file and the penalties table as before.
C30_RejectedRequestChangesNothing ==
    [][/\ \A id \in DeleteIds :
            (ReportDelete(id) /\ ~\E i \in 1..Len(reports) : reports[i].id = id)
            => (response'.kind = "delete" /\ response'.status = 404 /\ ReportStateKept)
       /\ \A body \in ReportBodies :
            (ReportPost(body, 0) /\ (body.profile_url = "" \/ body.report_type = ""))
            => (response'.kind = "report" /\ response'.status = 400 /\ ReportStateKept)]_vars

\* a delete naming an id that no report of a non-empty log has was answered
\* 404, and the table still holds the multipliers of the log
C30_Witness ==
    /\ response.kind = "delete"
    /\ response.status = 404
    /\ Len(reports) > 0
    /\ reportsFile = reports
    /\ DOMAIN penalties # {}

====
